---- MODULE Spec2Model ----
(***************************************************************************)
(* MEV Shield on-ledger protocol: ProtectionVault, MEVRouter, TimeLock,    *)
(* RiskOracle and PrivateRelay, with the asset-transfer interface they     *)
(* consume.  Every external call of a contract is one atomic transaction:  *)
(* an operator computes the transaction's outcome [ok, err, w] from the    *)
(* state w at entry, a failing `require` yielding the entry state of its   *)
(* call frame, and an action commits that outcome.                         *)
(***************************************************************************)
EXTENDS Integers, Sequences, FiniteSets, TLC

\* ------------------------------------------------------------------ bounds

\* Successful transactions along one behaviour.
MaxMoves == 3
\* Orders created in the TimeLock along one behaviour.
MaxOrders == 2
\* Blocks mined along one behaviour.
MaxBlocks == 3
\* Successful transactions along one behaviour of the five contracts together.
MaxJointMoves == 2
\* WebSockets one client opens along one behaviour.
MaxSockets == 3

\* --------------------------------------------------------------- addresses

ZeroAddr == "0x0"
Owner == "owner"
VaultAddr == "vault"
RouterAddr == "router"
OracleAddr == "oracle"
Users == {"alice", "bob"}
\* Externally owned callers, and the Router contract as a caller.
Addr == Users \cup {Owner, RouterAddr}
Tokens == {"A", "B"}
Holders == Addr \cup {VaultAddr}
\* Amounts a call may carry.
Amounts == {0, 100, 1000}
\* Fees the owner may try to set (basis points).
FeeInputs == {0, 100, 101}
\* Risk scores a swap may carry, and thresholds the owner may try to set.
ScoreInputs == {30, 69, 70, 85, 101}
ThresholdInputs == {0, 100, 101}
\* Delays an order may ask for (0: the default), and seconds between two blocks.
DelayInputs == {0, 1}
TimeSteps == {1, 59}

VARIABLES
    vault,      \* ProtectionVault storage, with its reentrancy lock
    mevRouter,  \* MEVRouter storage, with its reentrancy lock
    token,      \* token |-> ERC20 ledger (balanceOf, allowance)
    timeLock,   \* TimeLock storage
    oracle,     \* RiskOracle storage
    relay,      \* PrivateRelay storage
    block,      \* the current block: number and timestamp
    hist,       \* history of the Vault's successful money movements
    last,       \* the last transaction: its call, outcome and nested attempt
    monitor     \* the monitoring connections of the SDK provider and the dashboard

vars == <<vault, mevRouter, token, timeLock, oracle, relay, block, hist, last, monitor>>

\* The state a transaction runs on.
World == [vault |-> vault, mevRouter |-> mevRouter, token |-> token,
          timeLock |-> timeLock, oracle |-> oracle, relay |-> relay, block |-> block,
          hist |-> hist, nest |-> [status |-> "none", err |-> "none"], events |-> <<>>]

\* ------------------------------------------------------------ call outcomes

\* A transfer a function asks of an asset: transfer (kind "transfer", made by
\* from) or transferFrom (kind "transferFrom", made by spender); msg is the
\* reason the function fails with when the asset returns false.
Xfer(kind, t, spender, from, to, amount, msg) ==
    [kind |-> kind, token |-> t, spender |-> spender, from |-> from, to |-> to,
     amount |-> amount, msg |-> msg]

NoXfer == Xfer("none", "0x0", "0x0", "0x0", "0x0", 0, "none")

\* A function that ran to its end on state w; ret is the number it returns (0
\* where it returns none).
Ok(w) == [ok |-> TRUE, err |-> "none", w |-> w, xfer |-> NoXfer, ret |-> 0]

\* A function that reached, on state w, its call of an asset.
Ask(w, x) == [ok |-> TRUE, err |-> "none", w |-> w, xfer |-> x, ret |-> 0]

\* `require` failing in a call entered on state w0: every effect of the call is
\* undone and the failure is handed to the caller.
Revert(w0, err) == [ok |-> FALSE, err |-> err, w |-> w0, xfer |-> NoXfer, ret |-> 0]

\* One external call: target contract, function, msg.sender and arguments.
Call(target, op, sender, t, amount, user, t2, minOut, score) ==
    [target |-> target, op |-> op, sender |-> sender, token |-> t, amount |-> amount,
     user |-> user, token2 |-> t2, minOut |-> minOut, score |-> score,
     orderId |-> 0, delay |-> 0, hash |-> "0x0", targetBlock |-> 0, flag |-> FALSE]

VaultCall(op, sender, t, amount, user) ==
    Call("vault", op, sender, t, amount, user, "0x0", 0, 0)

SwapCall(sender, tIn, tOut, amountIn, minOut, score) ==
    Call("mevRouter", "protectedSwap", sender, tIn, amountIn, sender, tOut, minOut, score)

NoCall == Call("none", "none", "0x0", "0x0", 0, "0x0", "0x0", 0, 0)

\* The call an asset's transfer hook makes (NoCall: none), before or after it
\* moves the amount; a failure of that call is swallowed by the hook or handed up.
NoCb == [call |-> NoCall, swallow |-> FALSE, when |-> "before"]

\* How the asset behaves in one transfer: it moves the amount and returns true
\* ("ok") or returns false and moves nothing ("false"); cb is its hook.
GoodEnv == [mode |-> "ok", cb |-> NoCb]

\* ------------------------------------------------------------------- ERC20

\* MockERC20.transfer: checked arithmetic, so an underflow reverts.
MockTransfer(tok, from, to, amount) ==
    IF tok.balanceOf[from] < amount
    THEN [ok |-> FALSE, tok |-> tok]
    ELSE LET b1 == [tok.balanceOf EXCEPT ![from] = @ - amount]
             b2 == [b1 EXCEPT ![to] = @ + amount]
         IN [ok |-> TRUE, tok |-> [tok EXCEPT !.balanceOf = b2]]

\* MockERC20.transferFrom, called by spender.
MockTransferFrom(tok, spender, from, to, amount) ==
    IF tok.allowance[from][spender] < amount \/ tok.balanceOf[from] < amount
    THEN [ok |-> FALSE, tok |-> tok]
    ELSE LET a1 == [tok.allowance EXCEPT ![from][spender] = @ - amount]
             b1 == [tok.balanceOf EXCEPT ![from] = @ - amount]
             b2 == [b1 EXCEPT ![to] = @ + amount]
         IN [ok |-> TRUE, tok |-> [tok EXCEPT !.balanceOf = b2, !.allowance = a1]]

\* MockERC20.approve.
MockApprove(tok, holder, spender, amount) ==
    [tok EXCEPT !.allowance[holder][spender] = amount]

\* The asset's own part of transfer x on state w: ok is FALSE when the asset
\* reverts, ret is the boolean it returns.
MoveAsset(w, x, mode) ==
    IF x.token \notin Tokens
    THEN [ok |-> FALSE, err |-> "not a contract", ret |-> FALSE, w |-> w]
    ELSE IF mode = "false"
    THEN [ok |-> TRUE, err |-> "none", ret |-> FALSE, w |-> w]
    ELSE LET m == IF x.kind = "transfer"
                  THEN MockTransfer(w.token[x.token], x.from, x.to, x.amount)
                  ELSE MockTransferFrom(w.token[x.token], x.spender, x.from, x.to, x.amount)
         IN IF ~m.ok
            THEN [ok |-> FALSE, err |-> "ERC20: revert", ret |-> FALSE, w |-> w]
            ELSE [ok |-> TRUE, err |-> "none", ret |-> TRUE,
                  w |-> [w EXCEPT !.token[x.token] = m.tok]]

\* A failed transfer reported to the caller with the effects the call had made
\* until then left in place.
RequireTransferKeepsEffects(w0, r, msg) ==
    IF ~r.ok THEN Revert(r.w, r.err)
    ELSE IF ~r.ret THEN Revert(r.w, msg)
    ELSE Ok(r.w)

\* A transfer that returned false reported to the caller with the debit made
\* before it left in place.
RequireTransferDebitStands(w0, r, msg) ==
    IF ~r.ok THEN Revert(w0, r.err)
    ELSE IF ~r.ret THEN Revert([r.w EXCEPT !.vault.locked = FALSE], msg)
    ELSE Ok(r.w)

\* require(IERC20(..).transfer(..), msg) in a call entered on w0: a revert of the
\* asset bubbles up with its own reason, a returned false fails with msg.
RequireTransfer(w0, r, msg) ==
    IF ~r.ok THEN Revert(w0, r.err)
    ELSE IF ~r.ret THEN Revert(w0, msg)
    ELSE Ok(r.w)

\* --------------------------------------------------------- ReentrancyGuard

\* nonReentrant: one lock per instance ("vault", "mevRouter").  A guarded
\* function fails with ReentrantCall when it is entered while the lock is held,
\* holds the lock while it runs and frees it when it returns; a revert undoes
\* the locking with everything else.
Locked(w, inst) == IF inst = "vault" THEN w.vault.locked ELSE w.mevRouter.locked

Lock(w, inst) ==
    IF inst = "vault" THEN [w EXCEPT !.vault.locked = TRUE]
    ELSE [w EXCEPT !.mevRouter.locked = TRUE]

Unlock(w, inst) ==
    IF inst = "vault" THEN [w EXCEPT !.vault.locked = FALSE]
    ELSE [w EXCEPT !.mevRouter.locked = FALSE]

\* --------------------------------------------------------- ProtectionVault
\* A function that calls an asset is given in two parts: ...Start runs from
\* the entry (state w) to the call of the asset, ...Finish from the asset's
\* successful return (state w) to the end; w0 is the state at entry.

MAX_FEE == 100

\* balances[user][token]; an address that is no asset has no record.
Bal(w, user, t) == IF t \in Tokens THEN w.vault.balances[user][t] ELSE 0

\* History: a successful deposit of amount (net credited to user).
NoteDeposit(w, user, t, amount, net) ==
    [w EXCEPT !.hist.deposited[t] = @ + amount,
              !.hist.credited[user][t] = @ + net]

\* History: amount paid out of the Vault, debited from user's record.
NoteDebit(w, user, t, amount) ==
    [w EXCEPT !.hist.paidOut[t] = @ + amount,
              !.hist.debited[user][t] = @ + amount]

\* History: amount of collected fees paid out of the Vault.
NoteFeesOut(w, t, amount) == [w EXCEPT !.hist.paidOut[t] = @ + amount]

\* deposit: nonReentrant, whenNotPaused, the checks and the pull.
DepositStart(w, c) ==
    IF Locked(w, "vault") THEN Revert(w, "ReentrantCall")
    ELSE IF w.vault.paused THEN Revert(w, "ProtectionVault: paused")
    ELSE IF c.token = ZeroAddr THEN Revert(w, "ProtectionVault: invalid token")
    ELSE IF ~(c.amount > 0) THEN Revert(w, "ProtectionVault: invalid amount")
    ELSE Ask(Lock(w, "vault"),
             Xfer("transferFrom", c.token, VaultAddr, c.sender, VaultAddr, c.amount,
                  "ProtectionVault: transfer failed"))

\* deposit crediting the whole amount to the depositor as well as the fee to the
\* fee ledger.
DepositFinishCreditsGross(w0, w, c) ==
    LET fee == (c.amount * w.vault.protectionFee) \div 10000
        w1 == [w EXCEPT !.vault.balances[c.sender][c.token] = @ + c.amount,
                        !.vault.collectedFees[c.token] = @ + fee]
    IN Ok(Unlock(NoteDeposit(w1, c.sender, c.token, c.amount, c.amount), "vault"))

\* deposit taking the fee per thousand instead of per ten thousand.
DepositFinishFeePerMille(w0, w, c) ==
    LET fee == (c.amount * w.vault.protectionFee) \div 1000
        netAmount == c.amount - fee
        w1 == [w EXCEPT !.vault.balances[c.sender][c.token] = @ + netAmount,
                        !.vault.collectedFees[c.token] = @ + fee]
    IN Ok(Unlock(NoteDeposit(w1, c.sender, c.token, c.amount, netAmount), "vault"))

\* deposit: the fee and the two ledgers.
DepositFinish(w0, w, c) ==
    LET fee == (c.amount * w.vault.protectionFee) \div 10000
        netAmount == c.amount - fee
        w1 == [w EXCEPT !.vault.balances[c.sender][c.token] = @ + netAmount,
                        !.vault.collectedFees[c.token] = @ + fee]
    IN Ok(Unlock(NoteDeposit(w1, c.sender, c.token, c.amount, netAmount), "vault"))

\* withdraw entered without regard to the lock.
WithdrawStartUnguarded(w, c) ==
    IF ~(c.amount > 0) THEN Revert(w, "ProtectionVault: invalid amount")
    ELSE IF ~(Bal(w, c.sender, c.token) >= c.amount)
         THEN Revert(w, "ProtectionVault: insufficient balance")
    ELSE Ask([Lock(w, "vault") EXCEPT !.vault.balances[c.sender][c.token] = @ - c.amount],
             Xfer("transfer", c.token, VaultAddr, VaultAddr, c.sender, c.amount,
                  "ProtectionVault: transfer failed"))

\* withdraw refused while the Vault is paused.
WithdrawStartWhenNotPaused(w, c) ==
    IF Locked(w, "vault") THEN Revert(w, "ReentrantCall")
    ELSE IF w.vault.paused THEN Revert(w, "ProtectionVault: paused")
    ELSE IF ~(c.amount > 0) THEN Revert(w, "ProtectionVault: invalid amount")
    ELSE IF ~(Bal(w, c.sender, c.token) >= c.amount)
         THEN Revert(w, "ProtectionVault: insufficient balance")
    ELSE Ask([Lock(w, "vault") EXCEPT !.vault.balances[c.sender][c.token] = @ - c.amount],
             Xfer("transfer", c.token, VaultAddr, VaultAddr, c.sender, c.amount,
                  "ProtectionVault: transfer failed"))

\* withdraw: nonReentrant, the checks, the debit and the push.
WithdrawStart(w, c) ==
    IF Locked(w, "vault") THEN Revert(w, "ReentrantCall")
    ELSE IF ~(c.amount > 0) THEN Revert(w, "ProtectionVault: invalid amount")
    ELSE IF ~(Bal(w, c.sender, c.token) >= c.amount)
         THEN Revert(w, "ProtectionVault: insufficient balance")
    ELSE Ask([Lock(w, "vault") EXCEPT !.vault.balances[c.sender][c.token] = @ - c.amount],
             Xfer("transfer", c.token, VaultAddr, VaultAddr, c.sender, c.amount,
                  "ProtectionVault: transfer failed"))

\* withdraw returning with the lock still held.
WithdrawFinishKeepsLock(w0, w, c) ==
    Ok(NoteDebit(w, c.sender, c.token, c.amount))

WithdrawFinish(w0, w, c) ==
    Ok(Unlock(NoteDebit(w, c.sender, c.token, c.amount), "vault"))

\* routerWithdraw open to every caller.
RouterWithdrawStartByAnyone(w, c) ==
    IF Locked(w, "vault") THEN Revert(w, "ReentrantCall")
    ELSE IF ~(Bal(w, c.user, c.token) >= c.amount)
         THEN Revert(w, "ProtectionVault: insufficient balance")
    ELSE Ask(IF c.token \in Tokens
             THEN [Lock(w, "vault") EXCEPT !.vault.balances[c.user][c.token] = @ - c.amount]
             ELSE Lock(w, "vault"),
             Xfer("transfer", c.token, VaultAddr, VaultAddr, w.vault.router, c.amount,
                  "ProtectionVault: transfer failed"))

\* routerWithdraw paying the user whose record is debited.
RouterWithdrawStartPaysUser(w, c) ==
    IF c.sender # w.vault.router THEN Revert(w, "ProtectionVault: not router")
    ELSE IF Locked(w, "vault") THEN Revert(w, "ReentrantCall")
    ELSE IF ~(Bal(w, c.user, c.token) >= c.amount)
         THEN Revert(w, "ProtectionVault: insufficient balance")
    ELSE Ask(IF c.token \in Tokens
             THEN [Lock(w, "vault") EXCEPT !.vault.balances[c.user][c.token] = @ - c.amount]
             ELSE Lock(w, "vault"),
             Xfer("transfer", c.token, VaultAddr, VaultAddr, c.user, c.amount,
                  "ProtectionVault: transfer failed"))

\* routerWithdraw: onlyRouter, nonReentrant, the check, the debit and the push
\* to the router.
RouterWithdrawStart(w, c) ==
    IF c.sender # w.vault.router THEN Revert(w, "ProtectionVault: not router")
    ELSE IF Locked(w, "vault") THEN Revert(w, "ReentrantCall")
    ELSE IF ~(Bal(w, c.user, c.token) >= c.amount)
         THEN Revert(w, "ProtectionVault: insufficient balance")
    ELSE Ask(IF c.token \in Tokens
             THEN [Lock(w, "vault") EXCEPT !.vault.balances[c.user][c.token] = @ - c.amount]
             ELSE Lock(w, "vault"),
             Xfer("transfer", c.token, VaultAddr, VaultAddr, w.vault.router, c.amount,
                  "ProtectionVault: transfer failed"))

RouterWithdrawFinish(w0, w, c) ==
    Ok(Unlock(NoteDebit(w, c.user, c.token, c.amount), "vault"))

\* emergencyWithdraw pushing the balance without zeroing the record.
EmergencyWithdrawStartKeepsRecord(w, c) ==
    IF Locked(w, "vault") THEN Revert(w, "ReentrantCall")
    ELSE IF ~w.vault.paused THEN Revert(w, "ProtectionVault: not in emergency mode")
    ELSE LET amount == Bal(w, c.sender, c.token)
         IN IF ~(amount > 0) THEN Revert(w, "ProtectionVault: no balance")
            ELSE Ask(Lock(w, "vault"),
                     Xfer("transfer", c.token, VaultAddr, VaultAddr, c.sender, amount,
                          "ProtectionVault: transfer failed"))

\* emergencyWithdraw open whether the Vault is paused or not.
EmergencyWithdrawStartAtAnyTime(w, c) ==
    IF Locked(w, "vault") THEN Revert(w, "ReentrantCall")
    ELSE LET amount == Bal(w, c.sender, c.token)
         IN IF ~(amount > 0) THEN Revert(w, "ProtectionVault: no balance")
            ELSE Ask([Lock(w, "vault") EXCEPT !.vault.balances[c.sender][c.token] = 0],
                     Xfer("transfer", c.token, VaultAddr, VaultAddr, c.sender, amount,
                          "ProtectionVault: transfer failed"))

\* emergencyWithdraw: nonReentrant, the checks, the record zeroed and the push.
EmergencyWithdrawStart(w, c) ==
    IF Locked(w, "vault") THEN Revert(w, "ReentrantCall")
    ELSE IF ~w.vault.paused THEN Revert(w, "ProtectionVault: not in emergency mode")
    ELSE LET amount == Bal(w, c.sender, c.token)
         IN IF ~(amount > 0) THEN Revert(w, "ProtectionVault: no balance")
            ELSE Ask([Lock(w, "vault") EXCEPT !.vault.balances[c.sender][c.token] = 0],
                     Xfer("transfer", c.token, VaultAddr, VaultAddr, c.sender, amount,
                          "ProtectionVault: transfer failed"))

EmergencyWithdrawFinish(w0, w, c) ==
    Ok(Unlock(NoteDebit(w, c.sender, c.token, Bal(w0, c.sender, c.token)), "vault"))

\* withdrawFees pushing the fees without zeroing the fee ledger.
WithdrawFeesStartKeepsLedger(w, c) ==
    IF c.sender # w.vault.owner THEN Revert(w, "ProtectionVault: not owner")
    ELSE LET amount == IF c.token \in Tokens THEN w.vault.collectedFees[c.token] ELSE 0
         IN IF ~(amount > 0) THEN Revert(w, "ProtectionVault: no fees")
            ELSE Ask(w, Xfer("transfer", c.token, VaultAddr, VaultAddr, w.vault.owner,
                             amount, "ProtectionVault: transfer failed"))

\* withdrawFees open to every caller, paying the caller.
WithdrawFeesStartPaysCaller(w, c) ==
    LET amount == IF c.token \in Tokens THEN w.vault.collectedFees[c.token] ELSE 0
    IN IF ~(amount > 0) THEN Revert(w, "ProtectionVault: no fees")
       ELSE Ask([w EXCEPT !.vault.collectedFees[c.token] = 0],
                Xfer("transfer", c.token, VaultAddr, VaultAddr, c.sender, amount,
                     "ProtectionVault: transfer failed"))

\* withdrawFees: onlyOwner, the check, the ledger zeroed and the push; it takes
\* no lock.
WithdrawFeesStart(w, c) ==
    IF c.sender # w.vault.owner THEN Revert(w, "ProtectionVault: not owner")
    ELSE LET amount == IF c.token \in Tokens THEN w.vault.collectedFees[c.token] ELSE 0
         IN IF ~(amount > 0) THEN Revert(w, "ProtectionVault: no fees")
            ELSE Ask([w EXCEPT !.vault.collectedFees[c.token] = 0],
                     Xfer("transfer", c.token, VaultAddr, VaultAddr, w.vault.owner, amount,
                          "ProtectionVault: transfer failed"))

WithdrawFeesFinish(w0, w, c) ==
    Ok(NoteFeesOut(w, c.token, w0.vault.collectedFees[c.token]))

\* updateProtectionFee accepting any fee.
UpdateProtectionFeeUnbounded(w, c) ==
    IF c.sender # w.vault.owner THEN Revert(w, "ProtectionVault: not owner")
    ELSE Ok([w EXCEPT !.vault.protectionFee = c.amount])

\* updateProtectionFee(newFee), newFee being c.amount.
UpdateProtectionFee(w, c) ==
    IF c.sender # w.vault.owner THEN Revert(w, "ProtectionVault: not owner")
    ELSE IF ~(c.amount <= MAX_FEE) THEN Revert(w, "ProtectionVault: fee too high")
    ELSE Ok([w EXCEPT !.vault.protectionFee = c.amount])

TogglePause(w, c) ==
    IF c.sender # w.vault.owner THEN Revert(w, "ProtectionVault: not owner")
    ELSE Ok([w EXCEPT !.vault.paused = ~@])

VaultUpdateRouter(w, c) ==
    IF c.sender # w.vault.owner THEN Revert(w, "ProtectionVault: not owner")
    ELSE IF c.user = ZeroAddr THEN Revert(w, "ProtectionVault: invalid router")
    ELSE Ok([w EXCEPT !.vault.router = c.user])

\* --------------------------------------------------------------- MEVRouter

\* _simulateSwap returning the whole input.
SimulateSwapInFull(amountIn) == amountIn

\* _simulateSwap: 99% of the input.
SimulateSwap(amountIn) == (amountIn * 99) \div 100

ExecutePublicSwap(tokenIn, tokenOut, amountIn, minAmountOut) == SimulateSwap(amountIn)

ExecutePrivateSwap(tokenIn, tokenOut, amountIn, minAmountOut) == SimulateSwap(amountIn)

Emit(w, ev) == [w EXCEPT !.events = Append(@, ev)]

\* protectedSwap pulling the input without the check of the risk score.
ProtectedSwapStartNoScoreCheck(w, c) ==
    IF Locked(w, "mevRouter") THEN Revert(w, "ReentrantCall")
    ELSE IF c.token = ZeroAddr THEN Revert(w, "MEVRouter: invalid tokenIn")
    ELSE IF c.token2 = ZeroAddr THEN Revert(w, "MEVRouter: invalid tokenOut")
    ELSE IF ~(c.amount > 0) THEN Revert(w, "MEVRouter: invalid amountIn")
    ELSE Ask(Lock(w, "mevRouter"),
             Xfer("transferFrom", c.token, RouterAddr, c.sender, RouterAddr, c.amount,
                  "MEVRouter: transfer failed"))

\* protectedSwap(tokenIn, tokenOut, amountIn, minAmountOut, riskScore), the
\* arguments being c.token, c.token2, c.amount, c.minOut, c.score:
\* nonReentrant, the checks and the pull.
ProtectedSwapStart(w, c) ==
    IF Locked(w, "mevRouter") THEN Revert(w, "ReentrantCall")
    ELSE IF c.token = ZeroAddr THEN Revert(w, "MEVRouter: invalid tokenIn")
    ELSE IF c.token2 = ZeroAddr THEN Revert(w, "MEVRouter: invalid tokenOut")
    ELSE IF ~(c.amount > 0) THEN Revert(w, "MEVRouter: invalid amountIn")
    ELSE IF ~(c.score <= 100) THEN Revert(w, "MEVRouter: invalid risk score")
    ELSE Ask(Lock(w, "mevRouter"),
             Xfer("transferFrom", c.token, RouterAddr, c.sender, RouterAddr, c.amount,
                  "MEVRouter: transfer failed"))

\* The amount protectedSwap computes on state w.
AmountOut(w, c) ==
    IF c.score >= w.mevRouter.privateRoutingThreshold
    THEN ExecutePrivateSwap(c.token, c.token2, c.amount, c.minOut)
    ELSE ExecutePublicSwap(c.token, c.token2, c.amount, c.minOut)

\* protectedSwap failing the slippage check with the pulled input left in the
\* Router.
ProtectedSwapRouteKeepsInput(w0, w, c) ==
    LET private == c.score >= w.mevRouter.privateRoutingThreshold
        amountOut == AmountOut(w, c)
        w1 == IF private
              THEN Emit(w, [name |-> "PrivateSwapExecuted", user |-> c.sender,
                            amountOut |-> amountOut, score |-> c.score])
              ELSE w
    IN IF ~(amountOut >= c.minOut)
       THEN Revert(Unlock(w, "mevRouter"), "MEVRouter: insufficient output amount")
       ELSE Ask(w1, Xfer("transfer", c.token2, RouterAddr, RouterAddr, c.sender, amountOut,
                         "MEVRouter: output transfer failed"))

\* protectedSwap taking the private path only above the threshold.
ProtectedSwapRoutePrivateAbove(w0, w, c) ==
    LET private == c.score > w.mevRouter.privateRoutingThreshold
        amountOut == AmountOut(w, c)
        w1 == IF private
              THEN Emit(w, [name |-> "PrivateSwapExecuted", user |-> c.sender,
                            amountOut |-> amountOut, score |-> c.score])
              ELSE w
    IN IF ~(amountOut >= c.minOut)
       THEN Revert(w0, "MEVRouter: insufficient output amount")
       ELSE Ask(w1, Xfer("transfer", c.token2, RouterAddr, RouterAddr, c.sender, amountOut,
                         "MEVRouter: output transfer failed"))

\* protectedSwap: the routing, the slippage check and the push.
ProtectedSwapRoute(w0, w, c) ==
    LET private == c.score >= w.mevRouter.privateRoutingThreshold
        amountOut == AmountOut(w, c)
        w1 == IF private
              THEN Emit(w, [name |-> "PrivateSwapExecuted", user |-> c.sender,
                            amountOut |-> amountOut, score |-> c.score])
              ELSE w
    IN IF ~(amountOut >= c.minOut)
       THEN Revert(w0, "MEVRouter: insufficient output amount")
       ELSE Ask(w1, Xfer("transfer", c.token2, RouterAddr, RouterAddr, c.sender, amountOut,
                         "MEVRouter: output transfer failed"))

\* protectedSwap counting the caller's swaps and recording the swap as
\* executed.
ProtectedSwapFinishRecordsSwap(w0, w, c) ==
    [Ok(Unlock(Emit([w EXCEPT !.mevRouter.userNonce[c.sender] = @ + 1,
                              !.mevRouter.executedSwaps =
                                  @ \cup {<<c.sender, c.token, c.token2, w.block.timestamp>>}],
                    [name |-> "SwapExecuted", user |-> c.sender,
                     amountOut |-> AmountOut(w, c), score |-> c.score]),
               "mevRouter"))
       EXCEPT !.ret = AmountOut(w, c)]

\* protectedSwap: the audit event and the return.
ProtectedSwapFinish(w0, w, c) ==
    [Ok(Unlock(Emit(w, [name |-> "SwapExecuted", user |-> c.sender,
                        amountOut |-> AmountOut(w, c), score |-> c.score]),
               "mevRouter"))
       EXCEPT !.ret = AmountOut(w, c)]

\* updatePrivateRoutingThreshold without the check of the caller.
UpdatePrivateRoutingThresholdByAnyone(w, c) ==
    IF ~(c.score <= 100) THEN Revert(w, "MEVRouter: invalid threshold")
    ELSE Ok(Emit([w EXCEPT !.mevRouter.privateRoutingThreshold = c.score],
                 [name |-> "RiskThresholdUpdated", user |-> c.sender,
                  amountOut |-> w.mevRouter.privateRoutingThreshold, score |-> c.score]))

UpdatePrivateRoutingThreshold(w, c) ==
    IF c.sender # w.mevRouter.owner THEN Revert(w, "MEVRouter: caller is not owner")
    ELSE IF ~(c.score <= 100) THEN Revert(w, "MEVRouter: invalid threshold")
    ELSE Ok(Emit([w EXCEPT !.mevRouter.privateRoutingThreshold = c.score],
                 [name |-> "RiskThresholdUpdated", user |-> c.sender,
                  amountOut |-> w.mevRouter.privateRoutingThreshold, score |-> c.score]))

UpdateRiskOracle(w, c) ==
    IF c.sender # w.mevRouter.owner THEN Revert(w, "MEVRouter: caller is not owner")
    ELSE IF c.user = ZeroAddr THEN Revert(w, "MEVRouter: invalid oracle address")
    ELSE Ok([w EXCEPT !.mevRouter.riskOracle = c.user])

\* MEVRouter.emergencyWithdraw open to every caller, paying the caller.
RouterEmergencyWithdrawStartToCaller(w, c) ==
    Ask(w, Xfer("transfer", c.token, RouterAddr, RouterAddr, c.sender,
                c.amount, "MEVRouter: withdraw failed"))

\* MEVRouter.emergencyWithdraw: onlyOwner and the push; it takes no lock.
RouterEmergencyWithdrawStart(w, c) ==
    IF c.sender # w.mevRouter.owner THEN Revert(w, "MEVRouter: caller is not owner")
    ELSE Ask(w, Xfer("transfer", c.token, RouterAddr, RouterAddr, w.mevRouter.owner,
                     c.amount, "MEVRouter: withdraw failed"))

\* getNonce (view).
GetNonce(r, user) == r.userNonce[user]

\* ---------------------------------------------------------------- TimeLock
\* The events of TimeLock, RiskOracle and PrivateRelay are not recorded.

\* Order ids a call may name: those that may be created and one beyond them.
OrderIds == 0 .. MaxOrders

\* orders[orderId] of an id never written.
ZeroOrder ==
    [user |-> ZeroAddr, tokenIn |-> ZeroAddr, tokenOut |-> ZeroAddr, amountIn |-> 0,
     minAmountOut |-> 0, executeAfter |-> 0, executed |-> FALSE, cancelled |-> FALSE]

\* A call of TimeLock naming an order.
OrderCall(op, sender, orderId) ==
    [Call("timeLock", op, sender, ZeroAddr, 0, ZeroAddr, ZeroAddr, 0, 0)
       EXCEPT !.orderId = orderId]

\* createOrder(tokenIn, tokenOut, amountIn, minAmountOut, delay).
CreateOrderCall(sender, tokenIn, tokenOut, amountIn, minOut, delay) ==
    [Call("timeLock", "createOrder", sender, tokenIn, amountIn, sender, tokenOut, minOut, 0)
       EXCEPT !.delay = delay]

\* createOrder taking a delay of 0 as no delay at all.
CreateOrderWithoutDefault(w, c) ==
    IF c.token = ZeroAddr THEN Revert(w, "TimeLock: invalid tokenIn")
    ELSE IF c.token2 = ZeroAddr THEN Revert(w, "TimeLock: invalid tokenOut")
    ELSE IF ~(c.amount > 0) THEN Revert(w, "TimeLock: invalid amount")
    ELSE LET orderId == w.timeLock.orderCount
             executeAfter == w.block.timestamp + c.delay
             order == [user |-> c.sender, tokenIn |-> c.token, tokenOut |-> c.token2,
                       amountIn |-> c.amount, minAmountOut |-> c.minOut,
                       executeAfter |-> executeAfter,
                       executed |-> FALSE, cancelled |-> FALSE]
         IN [Ok([w EXCEPT !.timeLock.orderCount = @ + 1,
                          !.timeLock.orders[orderId] = order,
                          !.timeLock.userOrders[c.sender] = Append(@, orderId)])
               EXCEPT !.ret = orderId]

\* createOrder: the checks, the default delay, the next id and the record.
CreateOrder(w, c) ==
    IF c.token = ZeroAddr THEN Revert(w, "TimeLock: invalid tokenIn")
    ELSE IF c.token2 = ZeroAddr THEN Revert(w, "TimeLock: invalid tokenOut")
    ELSE IF ~(c.amount > 0) THEN Revert(w, "TimeLock: invalid amount")
    ELSE LET delay == IF c.delay = 0 THEN w.timeLock.defaultDelay ELSE c.delay
             orderId == w.timeLock.orderCount
             executeAfter == w.block.timestamp + delay
             order == [user |-> c.sender, tokenIn |-> c.token, tokenOut |-> c.token2,
                       amountIn |-> c.amount, minAmountOut |-> c.minOut,
                       executeAfter |-> executeAfter,
                       executed |-> FALSE, cancelled |-> FALSE]
         IN [Ok([w EXCEPT !.timeLock.orderCount = @ + 1,
                          !.timeLock.orders[orderId] = order,
                          !.timeLock.userOrders[c.sender] = Append(@, orderId)])
               EXCEPT !.ret = orderId]

\* executeOrder marking an order executed whether or not it was cancelled.
ExecuteOrderIgnoresCancelled(w, c) ==
    IF c.sender # w.timeLock.router THEN Revert(w, "TimeLock: not router")
    ELSE LET order == w.timeLock.orders[c.orderId]
         IN IF order.executed THEN Revert(w, "TimeLock: already executed")
            ELSE IF ~(w.block.timestamp >= order.executeAfter)
                 THEN Revert(w, "TimeLock: too early")
            ELSE Ok([w EXCEPT !.timeLock.orders[c.orderId].executed = TRUE])

\* executeOrder: onlyRouter, the three checks on orders[orderId], the flag.  The
\* function returns true.
ExecuteOrder(w, c) ==
    IF c.sender # w.timeLock.router THEN Revert(w, "TimeLock: not router")
    ELSE LET order == w.timeLock.orders[c.orderId]
         IN IF order.executed THEN Revert(w, "TimeLock: already executed")
            ELSE IF order.cancelled THEN Revert(w, "TimeLock: cancelled")
            ELSE IF ~(w.block.timestamp >= order.executeAfter)
                 THEN Revert(w, "TimeLock: too early")
            ELSE Ok([w EXCEPT !.timeLock.orders[c.orderId].executed = TRUE])

\* cancelOrder open to every caller.
CancelOrderByAnyone(w, c) ==
    LET order == w.timeLock.orders[c.orderId]
    IN IF order.executed THEN Revert(w, "TimeLock: already executed")
       ELSE IF order.cancelled THEN Revert(w, "TimeLock: already cancelled")
       ELSE Ok([w EXCEPT !.timeLock.orders[c.orderId].cancelled = TRUE])

\* cancelOrder: the caller is the order's user, the order is pending, the flag.
CancelOrder(w, c) ==
    LET order == w.timeLock.orders[c.orderId]
    IN IF c.sender # order.user THEN Revert(w, "TimeLock: not order owner")
       ELSE IF order.executed THEN Revert(w, "TimeLock: already executed")
       ELSE IF order.cancelled THEN Revert(w, "TimeLock: already cancelled")
       ELSE Ok([w EXCEPT !.timeLock.orders[c.orderId].cancelled = TRUE])

\* canExecute (view).
CanExecute(tl, orderId, timestamp) ==
    LET order == tl.orders[orderId]
    IN ~order.executed /\ ~order.cancelled /\ timestamp >= order.executeAfter

\* updateDefaultDelay(newDelay), newDelay being c.delay.
UpdateDefaultDelay(w, c) ==
    IF c.sender # w.timeLock.owner THEN Revert(w, "TimeLock: not owner")
    ELSE IF ~(c.delay > 0 /\ c.delay <= 3600) THEN Revert(w, "TimeLock: invalid delay")
    ELSE Ok([w EXCEPT !.timeLock.defaultDelay = c.delay])

\* updateRouter(newRouter), newRouter being c.user.
TimeLockUpdateRouter(w, c) ==
    IF c.sender # w.timeLock.owner THEN Revert(w, "TimeLock: not owner")
    ELSE IF c.user = ZeroAddr THEN Revert(w, "TimeLock: invalid router")
    ELSE Ok([w EXCEPT !.timeLock.router = c.user])

\* -------------------------------------------------------------- RiskOracle

\* Transaction and bundle hashes a call may name.
Hashes == {"h1", "h2"}

\* Addresses a registry may be asked about.
AnyAddr == Addr \cup {ZeroAddr}

\* riskScores[txHash] of a hash never written.
ZeroScore == [score |-> 0, timestamp |-> 0, operator |-> ZeroAddr]

\* A call of RiskOracle: hash, score, the address and the flag it names.
OracleCall(op, sender, hash, score, operator, flag) ==
    [Call("oracle", op, sender, ZeroAddr, 0, operator, ZeroAddr, 0, score)
       EXCEPT !.hash = hash, !.flag = flag]

\* submitRiskScore storing the record without the time of the submission.
SubmitRiskScoreUnstamped(w, c) ==
    IF ~w.oracle.operators[c.sender] THEN Revert(w, "RiskOracle: not authorized operator")
    ELSE IF ~(c.score <= 100) THEN Revert(w, "RiskOracle: invalid score")
    ELSE IF ~(w.oracle.riskScores[c.hash].timestamp = 0)
         THEN Revert(w, "RiskOracle: score already exists")
    ELSE Ok([w EXCEPT !.oracle.riskScores[c.hash] =
                          [score |-> c.score, timestamp |-> 0, operator |-> c.sender],
                      !.oracle.operatorSubmissions[c.sender] = @ + 1])

\* submitRiskScore without the check that the hash has no record yet.
SubmitRiskScoreOverwrites(w, c) ==
    IF ~w.oracle.operators[c.sender] THEN Revert(w, "RiskOracle: not authorized operator")
    ELSE IF ~(c.score <= 100) THEN Revert(w, "RiskOracle: invalid score")
    ELSE Ok([w EXCEPT !.oracle.riskScores[c.hash] =
                          [score |-> c.score, timestamp |-> w.block.timestamp,
                           operator |-> c.sender],
                      !.oracle.operatorSubmissions[c.sender] = @ + 1])

\* submitRiskScore(txHash, score): onlyOperator, the checks, the write-once
\* record and the submission count.
SubmitRiskScore(w, c) ==
    IF ~w.oracle.operators[c.sender] THEN Revert(w, "RiskOracle: not authorized operator")
    ELSE IF ~(c.score <= 100) THEN Revert(w, "RiskOracle: invalid score")
    ELSE IF ~(w.oracle.riskScores[c.hash].timestamp = 0)
         THEN Revert(w, "RiskOracle: score already exists")
    ELSE Ok([w EXCEPT !.oracle.riskScores[c.hash] =
                          [score |-> c.score, timestamp |-> w.block.timestamp,
                           operator |-> c.sender],
                      !.oracle.operatorSubmissions[c.sender] = @ + 1])

\* getRiskScore (view).
GetRiskScore(o, hash) == <<o.riskScores[hash].score, o.riskScores[hash].timestamp>>

\* updateOperatorAccuracy taking an accurate submission back when the report is
\* that the operator was not accurate.
UpdateOperatorAccuracyPenalises(w, c) ==
    IF c.sender # w.oracle.owner THEN Revert(w, "RiskOracle: not owner")
    ELSE IF c.flag THEN Ok([w EXCEPT !.oracle.operatorAccurate[c.user] = @ + 1])
    ELSE IF w.oracle.operatorAccurate[c.user] > 0
         THEN Ok([w EXCEPT !.oracle.operatorAccurate[c.user] = @ - 1])
    ELSE Ok(w)

\* updateOperatorAccuracy(operator, wasAccurate).
UpdateOperatorAccuracy(w, c) ==
    IF c.sender # w.oracle.owner THEN Revert(w, "RiskOracle: not owner")
    ELSE IF c.flag THEN Ok([w EXCEPT !.oracle.operatorAccurate[c.user] = @ + 1])
    ELSE Ok(w)

\* getOperatorReputation (view).
GetOperatorReputation(o, operator) ==
    IF o.operatorSubmissions[operator] = 0 THEN 0
    ELSE (o.operatorAccurate[operator] * 100) \div o.operatorSubmissions[operator]

AddOperator(w, c) ==
    IF c.sender # w.oracle.owner THEN Revert(w, "RiskOracle: not owner")
    ELSE IF c.user = ZeroAddr THEN Revert(w, "RiskOracle: invalid operator")
    ELSE IF w.oracle.operators[c.user] THEN Revert(w, "RiskOracle: already operator")
    ELSE Ok([w EXCEPT !.oracle.operators[c.user] = TRUE])

RemoveOperator(w, c) ==
    IF c.sender # w.oracle.owner THEN Revert(w, "RiskOracle: not owner")
    ELSE IF ~w.oracle.operators[c.user] THEN Revert(w, "RiskOracle: not operator")
    ELSE Ok([w EXCEPT !.oracle.operators[c.user] = FALSE])

\* ------------------------------------------------------------ PrivateRelay

\* Block numbers a bundle may target.
Blocks == 0 .. (MaxBlocks + 1)

\* bundles[bundleHash] of a hash never written.
ZeroBundle ==
    [bundleHash |-> "0x0", submitter |-> ZeroAddr, blockNumber |-> 0, timestamp |-> 0,
     included |-> FALSE]

\* A call of PrivateRelay: hash and target block; origin is tx.origin.
RelayCall(op, sender, hash, targetBlock, origin) ==
    [Call("relay", op, sender, ZeroAddr, 0, origin, ZeroAddr, 0, 0)
       EXCEPT !.hash = hash, !.targetBlock = targetBlock]

\* submitBundle without the check that the hash has no record yet.
SubmitBundleOverwrites(w, c) ==
    IF c.sender # w.relay.router THEN Revert(w, "PrivateRelay: not router")
    ELSE IF ~(c.targetBlock > w.block.number)
         THEN Revert(w, "PrivateRelay: invalid target block")
    ELSE Ok([w EXCEPT !.relay.bundles[c.hash] =
                          [bundleHash |-> c.hash, submitter |-> c.user,
                           blockNumber |-> c.targetBlock,
                           timestamp |-> w.block.timestamp, included |-> FALSE],
                      !.relay.blockBundles[c.targetBlock] = Append(@, c.hash),
                      !.relay.totalBundlesSubmitted = @ + 1])

\* submitBundle that does not count the submission.
SubmitBundleUncounted(w, c) ==
    IF c.sender # w.relay.router THEN Revert(w, "PrivateRelay: not router")
    ELSE IF ~(c.targetBlock > w.block.number)
         THEN Revert(w, "PrivateRelay: invalid target block")
    ELSE IF ~(w.relay.bundles[c.hash].timestamp = 0)
         THEN Revert(w, "PrivateRelay: bundle exists")
    ELSE Ok([w EXCEPT !.relay.bundles[c.hash] =
                          [bundleHash |-> c.hash, submitter |-> c.user,
                           blockNumber |-> c.targetBlock,
                           timestamp |-> w.block.timestamp, included |-> FALSE],
                      !.relay.blockBundles[c.targetBlock] = Append(@, c.hash)])

\* submitBundle(bundleHash, targetBlock): onlyRouter, the checks, the write-once
\* record, the block's list and the count.
SubmitBundle(w, c) ==
    IF c.sender # w.relay.router THEN Revert(w, "PrivateRelay: not router")
    ELSE IF ~(c.targetBlock > w.block.number)
         THEN Revert(w, "PrivateRelay: invalid target block")
    ELSE IF ~(w.relay.bundles[c.hash].timestamp = 0)
         THEN Revert(w, "PrivateRelay: bundle exists")
    ELSE Ok([w EXCEPT !.relay.bundles[c.hash] =
                          [bundleHash |-> c.hash, submitter |-> c.user,
                           blockNumber |-> c.targetBlock,
                           timestamp |-> w.block.timestamp, included |-> FALSE],
                      !.relay.blockBundles[c.targetBlock] = Append(@, c.hash),
                      !.relay.totalBundlesSubmitted = @ + 1])

\* markBundleIncluded accepting a bundle already included.
MarkBundleIncludedAgain(w, c) ==
    IF c.sender # w.relay.owner THEN Revert(w, "PrivateRelay: not owner")
    ELSE IF ~(w.relay.bundles[c.hash].timestamp > 0)
         THEN Revert(w, "PrivateRelay: bundle not found")
    ELSE Ok([w EXCEPT !.relay.bundles[c.hash].included = TRUE,
                      !.relay.totalBundlesIncluded = @ + 1])

\* markBundleIncluded: onlyOwner, the checks, the flag and the count.
MarkBundleIncluded(w, c) ==
    IF c.sender # w.relay.owner THEN Revert(w, "PrivateRelay: not owner")
    ELSE IF ~(w.relay.bundles[c.hash].timestamp > 0)
         THEN Revert(w, "PrivateRelay: bundle not found")
    ELSE IF w.relay.bundles[c.hash].included
         THEN Revert(w, "PrivateRelay: already included")
    ELSE Ok([w EXCEPT !.relay.bundles[c.hash].included = TRUE,
                      !.relay.totalBundlesIncluded = @ + 1])

\* markBundleFailed closing the bundle to a later inclusion.
MarkBundleFailedClosesBundle(w, c) ==
    IF c.sender # w.relay.owner THEN Revert(w, "PrivateRelay: not owner")
    ELSE IF ~(w.relay.bundles[c.hash].timestamp > 0)
         THEN Revert(w, "PrivateRelay: bundle not found")
    ELSE Ok([w EXCEPT !.relay.bundles[c.hash].included = TRUE])

\* markBundleFailed: the checks; only an event follows.
MarkBundleFailed(w, c) ==
    IF c.sender # w.relay.owner THEN Revert(w, "PrivateRelay: not owner")
    ELSE IF ~(w.relay.bundles[c.hash].timestamp > 0)
         THEN Revert(w, "PrivateRelay: bundle not found")
    ELSE Ok(w)

\* getInclusionRate (view).
GetInclusionRate(r) ==
    IF r.totalBundlesSubmitted = 0 THEN 0
    ELSE (r.totalBundlesIncluded * 100) \div r.totalBundlesSubmitted

\* updateRouter(newRouter), newRouter being c.user.
RelayUpdateRouter(w, c) ==
    IF c.sender # w.relay.owner THEN Revert(w, "PrivateRelay: not owner")
    ELSE IF c.user = ZeroAddr THEN Revert(w, "PrivateRelay: invalid router")
    ELSE Ok([w EXCEPT !.relay.router = c.user])

\* ------------------------------------------------------------ transactions

\* Call c from its entry on state w to its first call of an asset, or to its end.
StartOf(w, c) ==
    CASE c.target = "vault" /\ c.op = "deposit" -> DepositStart(w, c)
      [] c.target = "vault" /\ c.op = "withdraw" -> WithdrawStart(w, c)
      [] c.target = "vault" /\ c.op = "routerWithdraw" -> RouterWithdrawStart(w, c)
      [] c.target = "vault" /\ c.op = "emergencyWithdraw" -> EmergencyWithdrawStart(w, c)
      [] c.target = "vault" /\ c.op = "withdrawFees" -> WithdrawFeesStart(w, c)
      [] c.target = "vault" /\ c.op = "updateProtectionFee" -> UpdateProtectionFee(w, c)
      [] c.target = "vault" /\ c.op = "togglePause" -> TogglePause(w, c)
      [] c.target = "vault" /\ c.op = "updateRouter" -> VaultUpdateRouter(w, c)
      [] c.target = "mevRouter" /\ c.op = "protectedSwap" -> ProtectedSwapStart(w, c)
      [] c.target = "mevRouter" /\ c.op = "updatePrivateRoutingThreshold" ->
             UpdatePrivateRoutingThreshold(w, c)
      [] c.target = "mevRouter" /\ c.op = "updateRiskOracle" -> UpdateRiskOracle(w, c)
      [] c.target = "mevRouter" /\ c.op = "emergencyWithdraw" ->
             RouterEmergencyWithdrawStart(w, c)
      [] c.target = "timeLock" /\ c.op = "createOrder" -> CreateOrder(w, c)
      [] c.target = "timeLock" /\ c.op = "executeOrder" -> ExecuteOrder(w, c)
      [] c.target = "timeLock" /\ c.op = "cancelOrder" -> CancelOrder(w, c)
      [] c.target = "timeLock" /\ c.op = "updateDefaultDelay" -> UpdateDefaultDelay(w, c)
      [] c.target = "timeLock" /\ c.op = "updateRouter" -> TimeLockUpdateRouter(w, c)
      [] c.target = "oracle" /\ c.op = "submitRiskScore" -> SubmitRiskScore(w, c)
      [] c.target = "oracle" /\ c.op = "updateOperatorAccuracy" ->
             UpdateOperatorAccuracy(w, c)
      [] c.target = "oracle" /\ c.op = "addOperator" -> AddOperator(w, c)
      [] c.target = "oracle" /\ c.op = "removeOperator" -> RemoveOperator(w, c)
      [] c.target = "relay" /\ c.op = "submitBundle" -> SubmitBundle(w, c)
      [] c.target = "relay" /\ c.op = "markBundleIncluded" -> MarkBundleIncluded(w, c)
      [] c.target = "relay" /\ c.op = "markBundleFailed" -> MarkBundleFailed(w, c)
      [] c.target = "relay" /\ c.op = "updateRouter" -> RelayUpdateRouter(w, c)
      [] c.target = "token" /\ c.op = "approve" ->
             Ok([w EXCEPT !.token[c.token] = MockApprove(@, c.sender, c.user, c.amount)])

\* Call c, entered on w0, from the return of its first asset call (state w) to
\* its second, or to its end.
ResumeOf(w0, w, c) ==
    CASE c.target = "vault" /\ c.op = "deposit" -> DepositFinish(w0, w, c)
      [] c.target = "vault" /\ c.op = "withdraw" -> WithdrawFinish(w0, w, c)
      [] c.target = "vault" /\ c.op = "routerWithdraw" -> RouterWithdrawFinish(w0, w, c)
      [] c.target = "vault" /\ c.op = "emergencyWithdraw" -> EmergencyWithdrawFinish(w0, w, c)
      [] c.target = "vault" /\ c.op = "withdrawFees" -> WithdrawFeesFinish(w0, w, c)
      [] c.target = "mevRouter" /\ c.op = "protectedSwap" -> ProtectedSwapRoute(w0, w, c)
      [] OTHER -> Ok(w)

\* Call c, entered on w0, from the return of its second asset call to its end.
FinishOf(w0, w, c) ==
    IF c.target = "mevRouter" /\ c.op = "protectedSwap"
    THEN ProtectedSwapFinish(w0, w, c)
    ELSE Ok(w)

\* Call c, entered on w0, after its second asset call gave y.
AfterSecond(w0, c, y) == IF ~y.ok THEN y ELSE FinishOf(w0, y.w, c)

\* A call made from an asset's transfer hook: the assets behave in it and make
\* no further call.  m is where the call stands after its first asset call.
NestedSecond(w0, c, m) ==
    IF ~m.ok \/ m.xfer = NoXfer THEN m
    ELSE AfterSecond(w0, c, RequireTransfer(w0, MoveAsset(m.w, m.xfer, "ok"), m.xfer.msg))

NestedResume(w0, c, x) == IF ~x.ok THEN x ELSE NestedSecond(w0, c, ResumeOf(w0, x.w, c))

NestedFirst(w0, c, s) ==
    IF ~s.ok \/ s.xfer = NoXfer THEN s
    ELSE NestedResume(w0, c, RequireTransfer(w0, MoveAsset(s.w, s.xfer, "ok"), s.xfer.msg))

\* The outcome of call c made from an asset's transfer hook on state w.
RunNested(w, c) == NestedFirst(w, c, StartOf(w, c))

\* What the hook makes of the outcome r of its call: a failure is either
\* swallowed (the hook goes on) or handed up (the transfer reverts).
CallbackOutcome(w, cb, r) ==
    IF r.ok THEN Ok([r.w EXCEPT !.nest = [status |-> "executed", err |-> "none"]])
    ELSE IF cb.swallow THEN Ok([w EXCEPT !.nest = [status |-> "rejected", err |-> r.err]])
    ELSE Revert(w, r.err)

\* The transfer hook of an asset makes the call cb.call.
RunCallback(w, cb) == CallbackOutcome(w, cb, RunNested(w, cb.call))

\* The asset moves the amount after its hook ran with outcome pre.
MoveAfterHook(w, x, env, pre) ==
    IF ~pre.ok THEN [ok |-> FALSE, err |-> pre.err, ret |-> FALSE, w |-> w]
    ELSE MoveAsset(pre.w, x, env.mode)

\* The asset's hook ran with outcome post after the move m.
HookAfterMove(w, m, post) ==
    IF ~post.ok THEN [ok |-> FALSE, err |-> post.err, ret |-> FALSE, w |-> w]
    ELSE [m EXCEPT !.w = post.w]

MoveThenHook(w, env, m) ==
    IF ~m.ok \/ ~m.ret THEN m ELSE HookAfterMove(w, m, RunCallback(m.w, env.cb))

\* IERC20.transfer / transferFrom as the calling contract sees it, the asset
\* behaving as env says.
AssetCall(w, x, env) ==
    IF x.token \notin Tokens \/ env.cb.call = NoCall THEN MoveAsset(w, x, env.mode)
    ELSE IF env.cb.when = "before" THEN MoveAfterHook(w, x, env, RunCallback(w, env.cb))
    ELSE MoveThenHook(w, env, MoveAsset(w, x, env.mode))

\* Transaction c, entered on w0; m is where it stands after its first asset call.
ExecSecond(w0, c, env2, m) ==
    IF ~m.ok \/ m.xfer = NoXfer THEN m
    ELSE AfterSecond(w0, c, RequireTransfer(w0, AssetCall(m.w, m.xfer, env2), m.xfer.msg))

ExecResume(w0, c, env2, x) ==
    IF ~x.ok THEN x ELSE ExecSecond(w0, c, env2, ResumeOf(w0, x.w, c))

ExecFirst(w0, c, env1, env2, s) ==
    IF ~s.ok \/ s.xfer = NoXfer THEN s
    ELSE ExecResume(w0, c, env2,
                    RequireTransfer(w0, AssetCall(s.w, s.xfer, env1), s.xfer.msg))

\* The outcome of transaction c on state w; env1 and env2 are the behaviours of
\* the assets in its first and second transfer.
Exec(w, c, env1, env2) == ExecFirst(w, c, env1, env2, StartOf(w, c))

\* ----------------------------------------------------------------- actions

\* Calls an asset's transfer hook may make while it transfers t.
CbCalls(t) ==
    { VaultCall("deposit", "bob", t, 100, "bob"),
      VaultCall("withdraw", "bob", t, 100, "bob"),
      VaultCall("routerWithdraw", RouterAddr, t, 100, "bob"),
      VaultCall("routerWithdraw", "bob", t, 100, "bob"),
      VaultCall("emergencyWithdraw", "bob", t, 0, "bob"),
      VaultCall("withdrawFees", Owner, t, 0, Owner),
      SwapCall("bob", t, t, 100, 0, 85) }

Callbacks(t) ==
    { [call |-> c, swallow |-> s, when |-> wh] :
        c \in CbCalls(t), s \in BOOLEAN, wh \in {"before", "after"} }

\* Behaviours of a well-behaved asset in one transfer: it moves the amount, or
\* it refuses and returns false.
PlainEnvs == { GoodEnv, [mode |-> "false", cb |-> NoCb] }

\* Behaviours of an asset with a transfer hook.
HookEnvs(t) == PlainEnvs \cup { [mode |-> "ok", cb |-> cb] : cb \in Callbacks(t) }

EnvsOf(hooks, t) == IF hooks THEN HookEnvs(t) ELSE PlainEnvs

TokenArgs == Tokens \cup {ZeroAddr}

Idle == [call |-> Call("none", "idle", ZeroAddr, ZeroAddr, 0, ZeroAddr, ZeroAddr, 0, 0),
         ok |-> TRUE, err |-> "none", ret |-> 0,
         nest |-> [status |-> "none", err |-> "none"],
         events |-> <<>>, env |-> GoodEnv, env2 |-> GoodEnv]

\* The outcome r of transaction c becomes the state.
Receive(c, env1, env2, r) ==
    /\ vault' = r.w.vault
    /\ mevRouter' = r.w.mevRouter
    /\ token' = r.w.token
    /\ timeLock' = r.w.timeLock
    /\ oracle' = r.w.oracle
    /\ relay' = r.w.relay
    /\ block' = r.w.block
    /\ hist' = [r.w.hist EXCEPT !.moves = IF r.ok THEN @ + 1 ELSE @]
    /\ last' = [call |-> c, ok |-> r.ok, err |-> r.err, ret |-> r.ret,
                nest |-> r.w.nest, events |-> r.w.events, env |-> env1, env2 |-> env2]
    /\ monitor' = monitor

\* Transaction c is admitted when the ledger is idle, run on the current state,
\* and its outcome committed: last is its receipt.
Commit(c, env1, env2) ==
    /\ last = Idle
    /\ hist.moves < MaxMoves
    /\ Receive(c, env1, env2, Exec(World, c, env1, env2))

\* The ledger admits one transaction at a time: the receipt is handed out and
\* the next transaction may begin.
NextTransaction ==
    /\ last # Idle
    /\ last' = Idle
    /\ UNCHANGED <<vault, mevRouter, token, timeLock, oracle, relay, block, hist, monitor>>

\* The calls a specification admits: p.users call the functions open to
\* everyone, p.owners the owner's, p.routers the router's; the assets and
\* numbers a call may carry; p.hooks: the assets run transfer hooks.
DepositAct(p) ==
    /\ last = Idle
    /\ \E sender \in p.users, t \in p.tokens, amount \in p.amounts :
         \E env \in EnvsOf(p.hooks, t) :
            Commit(VaultCall("deposit", sender, t, amount, sender), env, GoodEnv)

WithdrawAct(p) ==
    /\ last = Idle
    /\ \E sender \in p.users, t \in p.tokens, amount \in p.amounts :
         \E env \in EnvsOf(p.hooks, t) :
            Commit(VaultCall("withdraw", sender, t, amount, sender), env, GoodEnv)

RouterWithdrawAct(p) ==
    /\ last = Idle
    /\ \E sender \in p.routers, user \in p.users \cap Users, t \in p.tokens,
       amount \in p.amounts :
         \E env \in EnvsOf(p.hooks, t) :
            Commit(VaultCall("routerWithdraw", sender, t, amount, user), env, GoodEnv)

EmergencyWithdrawAct(p) ==
    /\ last = Idle
    /\ \E sender \in p.users, t \in p.tokens :
         \E env \in EnvsOf(p.hooks, t) :
            Commit(VaultCall("emergencyWithdraw", sender, t, 0, sender), env, GoodEnv)

WithdrawFeesAct(p) ==
    /\ last = Idle
    /\ \E sender \in p.owners, t \in p.tokens :
         \E env \in EnvsOf(p.hooks, t) :
            Commit(VaultCall("withdrawFees", sender, t, 0, sender), env, GoodEnv)

UpdateProtectionFeeAct(p) ==
    /\ last = Idle
    /\ \E sender \in p.owners, newFee \in FeeInputs :
        Commit(VaultCall("updateProtectionFee", sender, ZeroAddr, newFee, sender),
               GoodEnv, GoodEnv)

TogglePauseAct(p) ==
    /\ last = Idle
    /\ \E sender \in p.owners :
        Commit(VaultCall("togglePause", sender, ZeroAddr, 0, sender), GoodEnv, GoodEnv)

VaultUpdateRouterAct(p) ==
    /\ last = Idle
    /\ \E sender \in p.owners, newRouter \in {ZeroAddr, RouterAddr, "bob"} :
        Commit(VaultCall("updateRouter", sender, ZeroAddr, 0, newRouter), GoodEnv, GoodEnv)

\* The behaviours of the assets in the two transfers of a swap: at most one of
\* them runs a hook.
EnvPairs(hooks, tIn, tOut) ==
    (PlainEnvs \X PlainEnvs)
      \cup (IF hooks
            THEN { <<e, GoodEnv>> : e \in HookEnvs(tIn) }
                   \cup { <<GoodEnv, e>> : e \in HookEnvs(tOut) }
            ELSE {})

ProtectedSwapAct(p) ==
    /\ last = Idle
    /\ \E sender \in p.users \cap Users, tIn \in p.tokens, tOut \in p.tokensOut,
       amountIn \in p.amounts, minOut \in p.minOuts, score \in p.scores :
         \E envs \in EnvPairs(p.hooks, tIn, tOut) :
            Commit(SwapCall(sender, tIn, tOut, amountIn, minOut, score), envs[1], envs[2])

UpdatePrivateRoutingThresholdAct(p) ==
    /\ last = Idle
    /\ \E sender \in p.owners, newThreshold \in ThresholdInputs :
        Commit(Call("mevRouter", "updatePrivateRoutingThreshold", sender, ZeroAddr, 0,
                    sender, ZeroAddr, 0, newThreshold),
               GoodEnv, GoodEnv)

UpdateRiskOracleAct(p) ==
    /\ last = Idle
    /\ \E sender \in p.owners, newOracle \in {ZeroAddr, "bob"} :
        Commit(Call("mevRouter", "updateRiskOracle", sender, ZeroAddr, 0, newOracle,
                    ZeroAddr, 0, 0),
               GoodEnv, GoodEnv)

RouterEmergencyWithdrawAct(p) ==
    /\ last = Idle
    /\ \E sender \in p.owners, t \in p.tokensOut, amount \in p.amounts \ {0},
       env \in PlainEnvs :
        Commit(Call("mevRouter", "emergencyWithdraw", sender, t, amount, sender,
                    ZeroAddr, 0, 0),
               env, GoodEnv)

\* A holder withdraws the allowance of the Router.
ApproveAct(p) ==
    /\ last = Idle
    /\ \E holder \in p.users \cap Users, t \in p.tokens \cap Tokens :
        Commit(Call("token", "approve", holder, t, 0, RouterAddr, ZeroAddr, 0, 0),
               GoodEnv, GoodEnv)

CreateOrderAct(p) ==
    /\ timeLock.orderCount < MaxOrders
    /\ \E sender \in p.users, tokenIn \in {"A", ZeroAddr}, tokenOut \in {"B", ZeroAddr},
          amountIn \in {0, 100}, delay \in DelayInputs :
           Commit(CreateOrderCall(sender, tokenIn, tokenOut, amountIn, 95, delay),
                  GoodEnv, GoodEnv)

ExecuteOrderAct(p) ==
    /\ last = Idle
    /\ \E sender \in p.routers, orderId \in OrderIds :
        Commit(OrderCall("executeOrder", sender, orderId), GoodEnv, GoodEnv)

CancelOrderAct(p) ==
    /\ last = Idle
    /\ \E sender \in p.users \cup p.owners \cup p.routers, orderId \in OrderIds :
        Commit(OrderCall("cancelOrder", sender, orderId), GoodEnv, GoodEnv)

UpdateDefaultDelayAct(p) ==
    /\ last = Idle
    /\ \E sender \in p.owners, newDelay \in {0, 1, 3600, 3601} :
        Commit([OrderCall("updateDefaultDelay", sender, 0) EXCEPT !.delay = newDelay],
               GoodEnv, GoodEnv)

TimeLockUpdateRouterAct(p) ==
    /\ last = Idle
    /\ \E sender \in p.owners, newRouter \in {ZeroAddr, "bob"} :
        Commit([OrderCall("updateRouter", sender, 0) EXCEPT !.user = newRouter],
               GoodEnv, GoodEnv)

SubmitRiskScoreAct(p) ==
    /\ last = Idle
    /\ \E sender \in p.owners, hash \in Hashes, score \in p.scores :
        Commit(OracleCall("submitRiskScore", sender, hash, score, ZeroAddr, FALSE),
               GoodEnv, GoodEnv)

UpdateOperatorAccuracyAct(p) ==
    /\ last = Idle
    /\ \E sender \in p.owners, operator \in {Owner, "alice"}, wasAccurate \in BOOLEAN :
        Commit(OracleCall("updateOperatorAccuracy", sender, "0x0", 0, operator, wasAccurate),
               GoodEnv, GoodEnv)

AddOperatorAct(p) ==
    /\ last = Idle
    /\ \E sender \in p.owners, operator \in {ZeroAddr, Owner, "alice"} :
        Commit(OracleCall("addOperator", sender, "0x0", 0, operator, FALSE),
               GoodEnv, GoodEnv)

RemoveOperatorAct(p) ==
    /\ last = Idle
    /\ \E sender \in p.owners, operator \in {Owner, "alice"} :
        Commit(OracleCall("removeOperator", sender, "0x0", 0, operator, FALSE),
               GoodEnv, GoodEnv)

SubmitBundleAct(p) ==
    /\ last = Idle
    /\ \E sender \in p.routers, hash \in Hashes,
       targetBlock \in {block.number, block.number + 1} :
        Commit(RelayCall("submitBundle", sender, hash, targetBlock, "alice"),
               GoodEnv, GoodEnv)

MarkBundleIncludedAct(p) ==
    /\ last = Idle
    /\ \E sender \in p.owners, hash \in Hashes :
        Commit(RelayCall("markBundleIncluded", sender, hash, 0, sender), GoodEnv, GoodEnv)

MarkBundleFailedAct(p) ==
    /\ last = Idle
    /\ \E sender \in p.owners, hash \in Hashes :
        Commit(RelayCall("markBundleFailed", sender, hash, 0, sender), GoodEnv, GoodEnv)

RelayUpdateRouterAct(p) ==
    /\ last = Idle
    /\ \E sender \in p.owners, newRouter \in {ZeroAddr, "bob"} :
        Commit(RelayCall("updateRouter", sender, "0x0", 0, newRouter), GoodEnv, GoodEnv)

\* A block is mined between two transactions, d seconds after the last one.
Tick ==
    /\ last = Idle
    /\ block.number < MaxBlocks
    /\ \E d \in TimeSteps :
          block' = [number |-> block.number + 1, timestamp |-> block.timestamp + d]
    /\ UNCHANGED <<vault, mevRouter, token, timeLock, oracle, relay, hist, last, monitor>>

\* -------------------------------------------------------------- monitoring

\* The two clients of the monitoring endpoint: the SDK's MEVShieldProvider and
\* the dashboard's useWebSocket hook.  sockets are the WebSockets a client has
\* opened, in order, each "connecting", "open", "closing" (its close event is
\* due) or "closed" (its onclose handler has run); the last one is this.ws or
\* wsRef.current.  timer: a reconnect timer is pending.  wsConnected: the
\* dashboard's store flag.  closed: destroy() or the effect's cleanup has run.
Clients == {"sdk", "hook"}

\* WebSocket.close(): a socket that is connecting or open starts closing and
\* its close event becomes due; on any other socket it does nothing.
CloseSocket(cl) ==
    IF cl.sockets[Len(cl.sockets)] \in {"connecting", "open"}
    THEN [cl EXCEPT !.sockets[Len(cl.sockets)] = "closing"]
    ELSE cl

\* MEVShieldProvider.initializeWebSocket: a new WebSocket with its handlers.
InitializeWebSocket(cl) == [cl EXCEPT !.sockets = Append(@, "connecting")]

\* useWebSocket.connect: a new WebSocket with its handlers, kept in wsRef.
Connect(cl) == [cl EXCEPT !.sockets = Append(@, "connecting")]

\* The provider constructed with enableMonitoring, and the hook mounted.
InitMonitor ==
    [sdk |-> InitializeWebSocket([sockets |-> <<>>, timer |-> FALSE,
                                  wsConnected |-> FALSE, closed |-> FALSE]),
     hook |-> Connect([sockets |-> <<>>, timer |-> FALSE,
                       wsConnected |-> FALSE, closed |-> FALSE])]

\* A step of the monitoring leaves the contracts as they are.
ContractsIdle ==
    UNCHANGED <<vault, mevRouter, token, timeLock, oracle, relay, block, hist, last>>

\* onopen: the connection of k is established.
OnOpen(k) ==
    /\ monitor[k].sockets[Len(monitor[k].sockets)] = "connecting"
    /\ monitor' = [monitor EXCEPT ![k].sockets[Len(monitor[k].sockets)] = "open",
                                  ![k].wsConnected = (k = "hook")]
    /\ ContractsIdle

\* The server or the network ends the connection of k: its close event is due.
ConnectionLost(k) ==
    /\ monitor[k].sockets[Len(monitor[k].sockets)] \in {"connecting", "open"}
    /\ monitor' = [monitor EXCEPT ![k] = CloseSocket(@)]
    /\ ContractsIdle

\* onclose: the close event of k's socket is delivered and the handler sets the
\* reconnect timer of 5 seconds.
OnClose(k) ==
    /\ monitor[k].sockets[Len(monitor[k].sockets)] = "closing"
    /\ monitor' = [monitor EXCEPT ![k].sockets[Len(monitor[k].sockets)] = "closed",
                                  ![k].wsConnected = FALSE,
                                  ![k].timer = TRUE]
    /\ ContractsIdle

\* The reconnect timer of k fires and its callback opens a new WebSocket.
ReconnectTimer(k) ==
    /\ monitor[k].timer
    /\ Len(monitor[k].sockets) < MaxSockets
    /\ monitor' = [monitor EXCEPT ![k] =
                      IF k = "sdk" THEN InitializeWebSocket([@ EXCEPT !.timer = FALSE])
                      ELSE Connect([@ EXCEPT !.timer = FALSE])]
    /\ ContractsIdle

\* MEVShieldProvider.destroy: this.ws.close().
Destroy ==
    /\ ~monitor.sdk.closed
    /\ monitor' = [monitor EXCEPT !.sdk = [CloseSocket(@) EXCEPT !.closed = TRUE]]
    /\ ContractsIdle

\* The cleanup of the hook's effect at unmount: clearTimeout of the reconnect
\* timer and wsRef.current.close().
Cleanup ==
    /\ ~monitor.hook.closed
    /\ monitor' = [monitor EXCEPT !.hook =
                      [CloseSocket([@ EXCEPT !.timer = FALSE]) EXCEPT !.closed = TRUE]]
    /\ ContractsIdle

\* ---------------------------------------------------------- specifications

ZeroBalances == [a \in Addr |-> [t \in Tokens |-> 0]]
ZeroPerToken == [t \in Tokens |-> 0]

\* Ledgers after the holders approved the two contracts.
InitToken ==
    [t \in Tokens |->
       [balanceOf |-> [h \in Holders |->
                         CASE h = "alice" -> IF t = "A" THEN 1100 ELSE 100
                           [] h = "bob" -> IF t = "A" THEN 100 ELSE 0
                           [] h = RouterAddr -> 1000
                           [] OTHER -> 0],
        allowance |-> [h \in Holders |-> [sp \in {VaultAddr, RouterAddr} |-> 1100]]]]

\* State after the constructors (Deploy.s.sol: one deployer owns every contract).
InitVault ==
    [owner |-> Owner, router |-> RouterAddr, protectionFee |-> 10,
     balances |-> ZeroBalances, collectedFees |-> ZeroPerToken,
     paused |-> FALSE, locked |-> FALSE]

InitRouter ==
    [owner |-> Owner, riskOracle |-> OracleAddr, privateRoutingThreshold |-> 70,
     userNonce |-> [a \in Addr |-> 0], executedSwaps |-> {}, locked |-> FALSE]

InitTimeLock ==
    [owner |-> Owner, router |-> RouterAddr, defaultDelay |-> 60, orderCount |-> 0,
     orders |-> [i \in OrderIds |-> ZeroOrder], userOrders |-> [a \in Addr |-> <<>>]]

InitOracle ==
    [owner |-> Owner, operators |-> [a \in AnyAddr |-> a = Owner],
     riskScores |-> [h \in Hashes |-> ZeroScore],
     operatorSubmissions |-> [a \in AnyAddr |-> 0],
     operatorAccurate |-> [a \in AnyAddr |-> 0]]

InitRelay ==
    [owner |-> Owner, router |-> RouterAddr, bundles |-> [h \in Hashes |-> ZeroBundle],
     blockBundles |-> [b \in Blocks |-> <<>>],
     totalBundlesSubmitted |-> 0, totalBundlesIncluded |-> 0]

InitHist ==
    [deposited |-> ZeroPerToken, paidOut |-> ZeroPerToken,
     credited |-> ZeroBalances, debited |-> ZeroBalances, moves |-> 0]

Init ==
    /\ vault = InitVault
    /\ mevRouter = InitRouter
    /\ token = InitToken
    /\ timeLock = InitTimeLock
    /\ oracle = InitOracle
    /\ relay = InitRelay
    /\ block = [number |-> 1, timestamp |-> 1000]
    /\ hist = InitHist
    /\ last = Idle
    /\ monitor = InitMonitor

\* Every address uses the Vault; the owner, the router and a user try the
\* functions reserved to a role.
Wide ==
    [users |-> Addr, owners |-> {Owner, "alice"}, routers |-> {RouterAddr, "bob"},
     tokens |-> TokenArgs, tokensOut |-> TokenArgs, amounts |-> Amounts,
     minOuts |-> {0}, scores |-> {85}, hooks |-> FALSE]

\* The Vault with well-behaved assets.
VaultNext ==
    \/ DepositAct(Wide)
    \/ WithdrawAct(Wide)
    \/ RouterWithdrawAct(Wide)
    \/ EmergencyWithdrawAct(Wide)
    \/ WithdrawFeesAct(Wide)
    \/ UpdateProtectionFeeAct(Wide)
    \/ TogglePauseAct(Wide)
    \/ VaultUpdateRouterAct(Wide)
    \/ NextTransaction

SpecVault == Init /\ [][VaultNext]_vars

\* The users create orders; owner, router and users try the rest.
Orders ==
    [users |-> Users, owners |-> {Owner, "alice"}, routers |-> {RouterAddr, "bob"},
     tokens |-> TokenArgs, tokensOut |-> TokenArgs, amounts |-> Amounts,
     minOuts |-> {0}, scores |-> {85}, hooks |-> FALSE]

\* The TimeLock as blocks are mined.
TimeLockNext ==
    \/ CreateOrderAct(Orders)
    \/ ExecuteOrderAct(Orders)
    \/ CancelOrderAct(Orders)
    \/ UpdateDefaultDelayAct(Orders)
    \/ TimeLockUpdateRouterAct(Orders)
    \/ Tick
    \/ NextTransaction

SpecTimeLock == Init /\ [][TimeLockNext]_vars

\* Swaps of A for B, with the arguments at and around their limits.
Swaps ==
    [users |-> Users, owners |-> {Owner, "alice"}, routers |-> {RouterAddr},
     tokens |-> {"A", ZeroAddr}, tokensOut |-> {"B", ZeroAddr},
     amounts |-> {0, 100, 150}, minOuts |-> {95, 149}, scores |-> ScoreInputs,
     hooks |-> FALSE]

\* The Router with well-behaved assets.
RouterNext ==
    \/ ProtectedSwapAct(Swaps)
    \/ UpdatePrivateRoutingThresholdAct(Swaps)
    \/ UpdateRiskOracleAct(Swaps)
    \/ RouterEmergencyWithdrawAct(Swaps)
    \/ ApproveAct(Swaps)
    \/ NextTransaction

SpecRouter == Init /\ [][RouterNext]_vars

\* Calls of one asset whose transfer hooks call back.
Hooked ==
    [users |-> Users, owners |-> {Owner}, routers |-> {RouterAddr, "bob"},
     tokens |-> {"A"}, tokensOut |-> {"A"}, amounts |-> {100}, minOuts |-> {0},
     scores |-> {85}, hooks |-> TRUE]

\* Vault and Router with assets whose transfer hooks call back.
ReentryNext ==
    \/ DepositAct(Hooked)
    \/ WithdrawAct(Hooked)
    \/ RouterWithdrawAct(Hooked)
    \/ EmergencyWithdrawAct(Hooked)
    \/ ProtectedSwapAct(Hooked)
    \/ TogglePauseAct(Hooked)
    \/ VaultUpdateRouterAct(Hooked)
    \/ NextTransaction

SpecReentry == Init /\ [][ReentryNext]_vars

\* Deposits large enough to leave a fee, of one asset whose transfer hooks
\* call back.
FeeHooks ==
    [users |-> Users, owners |-> {Owner}, routers |-> {RouterAddr},
     tokens |-> {"A"}, tokensOut |-> {"A"}, amounts |-> {100, 1000}, minOuts |-> {0},
     scores |-> {85}, hooks |-> TRUE]

\* The owner collecting the fees of an asset whose transfer hooks call back.
FeesNext ==
    \/ DepositAct(FeeHooks)
    \/ WithdrawFeesAct(FeeHooks)
    \/ TogglePauseAct(FeeHooks)
    \/ NextTransaction

SpecFees == Init /\ [][FeesNext]_vars

\* The owner, who is the first operator, and a user who may be made one;
\* scores within and beyond the range.
Scorers ==
    [users |-> Users, owners |-> {Owner, "alice"}, routers |-> {RouterAddr},
     tokens |-> {"A"}, tokensOut |-> {"B"}, amounts |-> {100}, minOuts |-> {95},
     scores |-> {30, 85, 101}, hooks |-> FALSE]

\* The RiskOracle as blocks are mined.
OracleNext ==
    \/ SubmitRiskScoreAct(Scorers)
    \/ UpdateOperatorAccuracyAct(Scorers)
    \/ AddOperatorAct(Scorers)
    \/ RemoveOperatorAct(Scorers)
    \/ Tick
    \/ NextTransaction

SpecOracle == Init /\ [][OracleNext]_vars

\* The router and a user submit bundles; the owner and a user report on them.
Bundles ==
    [users |-> Users, owners |-> {Owner, "alice"}, routers |-> {RouterAddr, "bob"},
     tokens |-> {"A"}, tokensOut |-> {"B"}, amounts |-> {100}, minOuts |-> {95},
     scores |-> {85}, hooks |-> FALSE]

\* The PrivateRelay as blocks are mined.
RelayNext ==
    \/ SubmitBundleAct(Bundles)
    \/ MarkBundleIncludedAct(Bundles)
    \/ MarkBundleFailedAct(Bundles)
    \/ RelayUpdateRouterAct(Bundles)
    \/ Tick
    \/ NextTransaction

SpecRelay == Init /\ [][RelayNext]_vars

\* Swaps between A and B in two sizes with one limit and one score, so that
\* two swaps of a caller with the same assets and amount are the same call in
\* the same block.
Repeats ==
    [users |-> Users, owners |-> {Owner}, routers |-> {RouterAddr},
     tokens |-> Tokens, tokensOut |-> Tokens, amounts |-> {100, 1000}, minOuts |-> {95},
     scores |-> {85}, hooks |-> FALSE]

\* The Router asked for the same swap again and again, between withdrawn
\* allowances and sweeps of its holdings.
ReplayNext ==
    \/ ProtectedSwapAct(Repeats)
    \/ ApproveAct(Repeats)
    \/ RouterEmergencyWithdrawAct(Repeats)
    \/ NextTransaction

SpecReplay == Init /\ [][ReplayNext]_vars

\* The two monitoring clients from construction to their closing and after.
MonitorNext ==
    \/ \E k \in Clients : OnOpen(k)
    \/ \E k \in Clients : ConnectionLost(k)
    \/ \E k \in Clients : OnClose(k)
    \/ \E k \in Clients : ReconnectTimer(k)
    \/ Destroy
    \/ Cleanup

SpecMonitor == Init /\ [][MonitorNext]_vars

\* One user, the owner and the router; each check of each function can fail.
Narrow ==
    [users |-> {"alice"}, owners |-> {Owner, "alice"}, routers |-> {RouterAddr, "alice"},
     tokens |-> {"A", ZeroAddr}, tokensOut |-> {"B", ZeroAddr}, amounts |-> {0, 100},
     minOuts |-> {0, 100}, scores |-> {85, 101}, hooks |-> FALSE]

\* The five contracts together, with well-behaved assets.
Next ==
    \/ /\ hist.moves < MaxJointMoves
       /\ \/ DepositAct(Narrow)
          \/ WithdrawAct(Narrow)
          \/ RouterWithdrawAct(Narrow)
          \/ EmergencyWithdrawAct(Narrow)
          \/ WithdrawFeesAct(Narrow)
          \/ UpdateProtectionFeeAct(Narrow)
          \/ TogglePauseAct(Narrow)
          \/ VaultUpdateRouterAct(Narrow)
          \/ ProtectedSwapAct(Narrow)
          \/ UpdatePrivateRoutingThresholdAct(Narrow)
          \/ UpdateRiskOracleAct(Narrow)
          \/ RouterEmergencyWithdrawAct(Narrow)
          \/ ApproveAct(Narrow)
          \/ CreateOrderAct(Narrow)
          \/ ExecuteOrderAct(Narrow)
          \/ CancelOrderAct(Narrow)
          \/ UpdateDefaultDelayAct(Narrow)
          \/ TimeLockUpdateRouterAct(Narrow)
          \/ SubmitRiskScoreAct(Narrow)
          \/ UpdateOperatorAccuracyAct(Narrow)
          \/ AddOperatorAct(Narrow)
          \/ RemoveOperatorAct(Narrow)
          \/ SubmitBundleAct(Narrow)
          \/ MarkBundleIncludedAct(Narrow)
          \/ MarkBundleFailedAct(Narrow)
          \/ RelayUpdateRouterAct(Narrow)
    \/ NextTransaction

Spec == Init /\ [][Next]_vars

\* ------------------------------------------------------ Vault: properties

RECURSIVE SumOf(_, _, _)
\* The sum over the users in S of their records for asset t.
SumOf(bal, S, t) ==
    IF S = {} THEN 0
    ELSE LET a == CHOOSE x \in S : TRUE
         IN bal[a][t] + SumOf(bal, S \ {a}, t)

Held(t) == token[t].balanceOf[VaultAddr]

\* The last transaction was a successful call of Vault function op.
VaultDid(op) == last.call.target = "vault" /\ last.call.op = op /\ last.ok

\* C1: for every asset, the user balance records plus the fee ledger entry never
\* exceed what the Vault holds of that asset.
C1_Conservation ==
    \A t \in Tokens : SumOf(vault.balances, Addr, t) + vault.collectedFees[t] <= Held(t)

\* A withdrawal has been paid while records and fees of that asset remain.
C1_Witness ==
    /\ VaultDid("withdraw")
    /\ \E t \in Tokens : /\ SumOf(vault.balances, Addr, t) > 0
                         /\ vault.collectedFees[t] > 0
                         /\ hist.paidOut[t] > 0

\* C2: a user's balance of an asset is never negative, never exceeds the net
\* amounts credited by the user's deposits, and equals those credits minus the
\* amounts paid out of the record.
C2_BalanceBounds ==
    \A u \in Addr, t \in Tokens :
        /\ vault.balances[u][t] >= 0
        /\ vault.balances[u][t] <= hist.credited[u][t]
        /\ vault.balances[u][t] = hist.credited[u][t] - hist.debited[u][t]

\* An emergency withdrawal has emptied a record that had been credited.
C2_Witness ==
    /\ VaultDid("emergencyWithdraw")
    /\ \E t \in Tokens : /\ hist.debited[last.call.sender][t] > 0
                         /\ vault.balances[last.call.sender][t] = 0

\* floor(amount * feeBps / 10000)
FeeOf(amount, feeBps) == (amount * feeBps) \div 10000

\* C3: a successful deposit(asset, amount) under fee feeBps credits exactly
\* amount - floor(amount * feeBps / 10000) to the caller and adds exactly
\* floor(amount * feeBps / 10000) to the asset's fee ledger.
C3_DepositSplit ==
    [][ (last'.call.target = "vault" /\ last'.call.op = "deposit" /\ last'.ok) =>
          LET c == last'.call
              fee == FeeOf(c.amount, vault.protectionFee)
          IN /\ vault'.balances[c.sender][c.token]
                   = vault.balances[c.sender][c.token] + (c.amount - fee)
             /\ vault'.collectedFees[c.token] = vault.collectedFees[c.token] + fee
             /\ (vault'.balances[c.sender][c.token] - vault.balances[c.sender][c.token])
                  + (vault'.collectedFees[c.token] - vault.collectedFees[c.token])
                  = c.amount ]_vars

\* 1000 units deposited at 10 basis points: balance 999, fee ledger 1.
C3_Witness ==
    /\ VaultDid("deposit")
    /\ last.call.amount = 1000
    /\ vault.protectionFee = 10
    /\ vault.balances[last.call.sender][last.call.token] = 999
    /\ vault.collectedFees[last.call.token] = 1

\* C4: for every asset, fee ledger plus user balances equals the total ever
\* deposited minus the total ever paid out of the Vault.
C4_LedgerIdentity ==
    \A t \in Tokens :
        vault.collectedFees[t] + SumOf(vault.balances, Addr, t)
            = hist.deposited[t] - hist.paidOut[t]

\* Fees have been withdrawn by the owner while a user record remains.
C4_Witness ==
    /\ VaultDid("withdrawFees")
    /\ \E t \in Tokens : /\ hist.paidOut[t] > 0
                         /\ vault.collectedFees[t] = 0
                         /\ SumOf(vault.balances, Addr, t) > 0

\* --------------------------------------------------- TimeLock: properties

\* The last transaction was a successful call of TimeLock function op.
TimeLockDid(op) == last.call.target = "timeLock" /\ last.call.op = op /\ last.ok

\* C5: an order's executed flag is set only by an executeOrder call made by the
\* router at a time now >= the order's executeAfter, on an order neither
\* cancelled nor already executed; no order is ever both executed and cancelled.
C5_ExecutedOnlyByRouterWhenDue ==
    [][ \A id \in OrderIds :
          /\ (~timeLock.orders[id].executed /\ timeLock'.orders[id].executed) =>
                /\ last'.call.target = "timeLock"
                /\ last'.call.op = "executeOrder"
                /\ last'.ok
                /\ last'.call.orderId = id
                /\ last'.call.sender = timeLock.router
                /\ block.timestamp >= timeLock.orders[id].executeAfter
                /\ ~timeLock.orders[id].cancelled
          /\ ~(timeLock'.orders[id].executed /\ timeLock'.orders[id].cancelled) ]_vars

\* The router has executed an order a user created, after its delay had passed.
C5_Witness ==
    /\ TimeLockDid("executeOrder")
    /\ LET order == timeLock.orders[last.call.orderId]
       IN /\ order.user \in Users
          /\ order.executed
          /\ order.executeAfter > 1000
          /\ block.timestamp >= order.executeAfter

\* An order is in a terminal state.
Terminal(order) == order.executed \/ order.cancelled

\* C6: once an order id is executed or cancelled it is in that same state in
\* every later state, whatever is called, and every later executeOrder or
\* cancelOrder on it fails without changing any state.
C6_TerminalPermanent ==
    [][ \A id \in OrderIds :
          Terminal(timeLock.orders[id]) =>
             /\ timeLock'.orders[id].executed = timeLock.orders[id].executed
             /\ timeLock'.orders[id].cancelled = timeLock.orders[id].cancelled
             /\ (/\ last'.call.target = "timeLock"
                 /\ last'.call.op \in {"executeOrder", "cancelOrder"}
                 /\ last'.call.orderId = id)
                  => (~last'.ok /\ timeLock' = timeLock) ]_vars

\* C7: cancelOrder succeeds only when the caller is the order's creator and the
\* order is pending; a call by anyone else fails and leaves the order unchanged.
C7_CancelOnlyByCreatorWhilePending ==
    [][ (last'.call.target = "timeLock" /\ last'.call.op = "cancelOrder") =>
          LET c == last'.call
              order == timeLock.orders[c.orderId]
          IN /\ last'.ok => /\ c.sender = order.user
                            /\ ~order.executed
                            /\ ~order.cancelled
                            /\ timeLock'.orders[c.orderId].cancelled
             /\ (c.sender # order.user) => (~last'.ok /\ timeLock' = timeLock) ]_vars

\* A user has cancelled the pending order that user created.
C7_Witness ==
    /\ TimeLockDid("cancelOrder")
    /\ LET order == timeLock.orders[last.call.orderId]
       IN /\ order.user = last.call.sender
          /\ last.call.sender \in Users
          /\ order.cancelled
          /\ ~order.executed

\* --------------------------------------------------- reentrancy: properties

\* The lock-guarded functions.
Guarded(c) ==
    \/ c.target = "vault" /\ c.op \in {"deposit", "withdraw", "routerWithdraw",
                                        "emergencyWithdraw"}
    \/ c.target = "mevRouter" /\ c.op = "protectedSwap"

\* The hook of receipt r: that of the first transfer, or else of the second.
HookOf(r) == IF r.env.cb.call # NoCall THEN r.env.cb ELSE r.env2.cb

\* Receipt r is of a lock-guarded call during which an asset's hook calls a
\* lock-guarded function of the same instance.
NestedSameInstance(r) ==
    /\ Guarded(r.call)
    /\ Guarded(HookOf(r).call)
    /\ HookOf(r).call.target = r.call.target

\* The statement of C8 on the rejection: the nested call never executes and is
\* rejected with ReentrantCall.
C8_NestedRejectedWithReentrantCall ==
    NestedSameInstance(last) =>
       /\ last.nest.status # "executed"
       /\ last.nest.status = "rejected" => last.nest.err = "ReentrantCall"

\* The reason a nested call cb is rejected for: the lock, or, for routerWithdraw
\* called by another than the router, the role check that precedes the lock.
Rejection(cb, err) ==
    \/ err = "ReentrantCall"
    \/ /\ cb.call.op = "routerWithdraw"
       /\ cb.call.sender # vault.router
       /\ err = "ProtectionVault: not router"

\* The transaction of receipt r ended as plain did: same outcome, same stored
\* state and holdings.
SameAsPlain(plain) ==
    /\ last'.ok = plain.ok
    /\ last'.err = plain.err
    /\ vault' = plain.w.vault
    /\ mevRouter' = plain.w.mevRouter
    /\ token' = plain.w.token

\* C8 (amended): a nested call from an asset's hook into a lock-guarded function
\* of the instance whose lock-guarded function is in progress never executes; it
\* is rejected with ReentrantCall, or, when it is routerWithdraw called by
\* another than the router, with the role check's failure; when the hook
\* swallows the rejection the outer call ends exactly as it does with no hook,
\* and when the hook hands it up the outer call either ends as with no hook
\* (the hook was not reached) or fails for that reason with nothing changed.
C8_ReentrancyRejected ==
    [][ NestedSameInstance(last') =>
          LET cb == HookOf(last')
              plain == Exec(World, last'.call, GoodEnv, GoodEnv)
          IN /\ last'.nest.status # "executed"
             /\ last'.nest.status = "rejected" => Rejection(cb, last'.nest.err)
             /\ cb.swallow => SameAsPlain(plain)
             /\ ~cb.swallow =>
                   \/ SameAsPlain(plain)
                   \/ /\ ~last'.ok
                      /\ Rejection(cb, last'.err)
                      /\ UNCHANGED <<vault, mevRouter, token>> ]_vars

\* A withdrawal was paid through an asset whose hook tried to withdraw again
\* for a user whose record covered the amount: the attempt was rejected.
C8_Witness ==
    /\ VaultDid("withdraw")
    /\ NestedSameInstance(last)
    /\ HookOf(last).call.op = "withdraw"
    /\ HookOf(last).swallow
    /\ last.nest = [status |-> "rejected", err |-> "ReentrantCall"]
    /\ Bal(World, HookOf(last).call.sender, HookOf(last).call.token)
          >= HookOf(last).call.amount

\* ------------------------------------------------ every contract: properties

\* C9: a call that fails leaves the stored state of every contract and all
\* asset holdings and allowances exactly as they were before the call.
C9_AtomicRollback ==
    [][ ~last'.ok =>
          UNCHANGED <<vault, mevRouter, token, timeLock, oracle, relay, block>> ]_vars

\* A withdrawal failed at its push, after the debit: the record still covers
\* the amount asked for.
C9_Witness ==
    /\ last.call.target = "vault"
    /\ last.call.op = "withdraw"
    /\ ~last.ok
    /\ last.err = "ProtectionVault: transfer failed"
    /\ last.call.amount > 0
    /\ vault.balances[last.call.sender][last.call.token] >= last.call.amount
    /\ ~vault.locked

\* ----------------------------------------------------- Router: properties

\* The failures of protectedSwap for a malformed argument.
InvalidArgument ==
    {"MEVRouter: invalid tokenIn", "MEVRouter: invalid tokenOut",
     "MEVRouter: invalid amountIn", "MEVRouter: invalid risk score"}

\* C10: protectedSwap with a null tokenIn, a null tokenOut, amountIn = 0 or
\* riskScore > 100 fails for the malformed argument and pulls nothing: holdings
\* and allowances of every asset are unchanged.
C10_InvalidArgumentsPullNothing ==
    [][ (/\ last'.call.target = "mevRouter"
         /\ last'.call.op = "protectedSwap"
         /\ \/ last'.call.token = ZeroAddr
            \/ last'.call.token2 = ZeroAddr
            \/ last'.call.amount = 0
            \/ last'.call.score > 100)
          => /\ ~last'.ok
             /\ last'.err \in InvalidArgument
             /\ UNCHANGED <<token, mevRouter, vault>> ]_vars

\* A swap with riskScore 101 failed although the caller held and had approved
\* the amount.
C10_Witness ==
    /\ last.call.target = "mevRouter"
    /\ last.call.op = "protectedSwap"
    /\ last.call.score = 101
    /\ last.call.token \in Tokens
    /\ last.call.token2 \in Tokens
    /\ last.call.amount > 0
    /\ ~last.ok
    /\ last.err = "MEVRouter: invalid risk score"
    /\ token[last.call.token].balanceOf[last.call.sender] >= last.call.amount
    /\ token[last.call.token].allowance[last.call.sender][RouterAddr] >= last.call.amount

\* The last transaction was a successful call of MEVRouter function op.
RouterDid(op) == last.call.target = "mevRouter" /\ last.call.op = op /\ last.ok

\* The events of receipt r named name.
EventsNamed(r, name) == { i \in DOMAIN r.events : r.events[i].name = name }

\* C11: a successful protectedSwap takes the private path, and emits
\* PrivateSwapExecuted, exactly when riskScore >= the threshold at the call;
\* on both paths it returns floor(amountIn * 99 / 100), pays that amount out
\* and emits SwapExecuted with it.
C11_RoutingAndAmountOut ==
    [][ (last'.call.target = "mevRouter" /\ last'.call.op = "protectedSwap" /\ last'.ok) =>
          LET c == last'.call
              out == (c.amount * 99) \div 100
          IN /\ last'.ret = out
             /\ (EventsNamed(last', "PrivateSwapExecuted") # {})
                   <=> (c.score >= mevRouter.privateRoutingThreshold)
             /\ \E i \in EventsNamed(last', "SwapExecuted") :
                   last'.events[i].amountOut = out
             /\ c.token # c.token2 =>
                   token'[c.token2].balanceOf[c.sender]
                      = token[c.token2].balanceOf[c.sender] + out ]_vars

\* protectedSwap(A, B, 100, 95, 85) under threshold 70 went the private path
\* and returned 99.
C11_Witness ==
    /\ RouterDid("protectedSwap")
    /\ last.call.token = "A" /\ last.call.token2 = "B"
    /\ last.call.amount = 100 /\ last.call.minOut = 95 /\ last.call.score = 85
    /\ mevRouter.privateRoutingThreshold = 70
    /\ last.ret = 99
    /\ EventsNamed(last, "PrivateSwapExecuted") # {}

\* ------------------------------------------------- RiskOracle: properties

\* The call being committed is submitRiskScore by an operator for a hash that
\* already has a record.
Resubmission(c) ==
    /\ c.target = "oracle" /\ c.op = "submitRiskScore"
    /\ oracle.operators[c.sender]
    /\ oracle.riskScores[c.hash].timestamp # 0

\* C12 as stated: a later submitRiskScore for a hash that has a record fails
\* with "score already exists" whatever the new score and whichever operator
\* calls, and increments no submission count.
C12_ResubmitFailsDuplicateRecord ==
    [][ Resubmission(last'.call) =>
          /\ ~last'.ok
          /\ last'.err = "RiskOracle: score already exists"
          /\ oracle' = oracle ]_vars

\* C12: a later submitRiskScore by an operator for a hash that has a record
\* fails and changes neither the record nor any submission count; it fails with
\* "score already exists" when the new score is at most 100 and with
\* "invalid score" when it is above 100, the range being checked first.
C12_WriteOnce ==
    [][ Resubmission(last'.call) =>
          /\ ~last'.ok
          /\ last'.err = IF last'.call.score <= 100
                         THEN "RiskOracle: score already exists"
                         ELSE "RiskOracle: invalid score"
          /\ oracle'.riskScores = oracle.riskScores
          /\ oracle'.operatorSubmissions = oracle.operatorSubmissions ]_vars

\* Another operator resubmitted another score for a recorded hash and was
\* refused with "score already exists".
C12_Witness ==
    /\ last.call.target = "oracle" /\ last.call.op = "submitRiskScore"
    /\ ~last.ok /\ last.err = "RiskOracle: score already exists"
    /\ oracle.riskScores[last.call.hash].timestamp # 0
    /\ oracle.riskScores[last.call.hash].score # last.call.score
    /\ oracle.riskScores[last.call.hash].operator # last.call.sender

\* C13: every operator's reputation is within 0 .. 100, and 0 when the
\* operator has no submission.
C13_ReputationBounded ==
    \A op \in AnyAddr :
        /\ GetOperatorReputation(oracle, op) \in 0 .. 100
        /\ oracle.operatorSubmissions[op] = 0 => GetOperatorReputation(oracle, op) = 0

\* ------------------------------------------------------- Vault: the pause

\* The asset of the committed call's transfer behaved well.
AssetBehaved(r) == r.env = GoodEnv /\ r.env2 = GoodEnv

\* The outcome of user withdrawing its whole balance of t in the current state
\* from a well-behaved asset.
PayoutOf(user, t) ==
    Exec(World, VaultCall("withdraw", user, t, vault.balances[user][t], user),
         GoodEnv, GoodEnv)

\* While the Vault is paused a deposit fails and changes nothing, and a
\* withdraw or (by the router) routerWithdraw of an amount within the user's
\* balance from a well-behaved asset succeeds.
PausedCalls ==
    LET c == last'.call
    IN (vault.paused /\ c.target = "vault") =>
         /\ c.op = "deposit" =>
               /\ ~last'.ok /\ last'.err = "ProtectionVault: paused"
               /\ UNCHANGED <<vault, token, hist>>
         /\ (/\ c.op = "withdraw" /\ AssetBehaved(last')
             /\ c.amount > 0 /\ Bal(World, c.sender, c.token) >= c.amount) =>
               /\ last'.ok
               /\ vault'.balances[c.sender][c.token]
                     = vault.balances[c.sender][c.token] - c.amount
         /\ (/\ c.op = "routerWithdraw" /\ AssetBehaved(last')
             /\ c.sender = vault.router /\ c.token \in Tokens
             /\ Bal(World, c.user, c.token) >= c.amount) =>
               /\ last'.ok
               /\ vault'.balances[c.user][c.token]
                     = vault.balances[c.user][c.token] - c.amount

\* Paused or not, a user with a positive balance can withdraw all of it.
NeverLockedOut ==
    \A user \in Addr, t \in Tokens :
        vault.balances[user][t] > 0 =>
            /\ PayoutOf(user, t).ok
            /\ PayoutOf(user, t).w.vault.balances[user][t] = 0
            /\ PayoutOf(user, t).w.token[t].balanceOf[user]
                  = token[t].balanceOf[user] + vault.balances[user][t]

FullPayout(c, b) ==
    /\ vault' = [vault EXCEPT !.balances[c.sender][c.token] = 0]
    /\ token' = [token EXCEPT ![c.token].balanceOf[VaultAddr] = @ - b,
                              ![c.token].balanceOf[c.sender] = @ + b]

\* C15: emergencyWithdraw(asset) fails whenever the Vault is not paused; when
\* it is paused and the caller's balance is b > 0, the call (the asset's
\* transfer succeeding) zeroes that balance and transfers exactly b to the
\* caller, leaving the fee ledger and all other balances unchanged; no
\* successful emergencyWithdraw does anything else.
C15_EmergencyWithdrawAllOrNothing ==
    [][ LET c == last'.call
            b == Bal(World, c.sender, c.token)
        IN (c.target = "vault" /\ c.op = "emergencyWithdraw") =>
             /\ ~vault.paused =>
                   ~last'.ok /\ last'.err = "ProtectionVault: not in emergency mode"
             /\ (vault.paused /\ b > 0 /\ AssetBehaved(last')) => last'.ok
             /\ last'.ok => vault.paused /\ b > 0 /\ FullPayout(c, b)
             /\ ~last'.ok => UNCHANGED <<vault, token>> ]_vars

\* A depositor took a whole balance out of the paused Vault, the fee of the
\* deposit staying in the fee ledger.
C15_Witness ==
    /\ VaultDid("emergencyWithdraw") /\ vault.paused
    /\ vault.balances[last.call.sender][last.call.token] = 0
    /\ hist.debited[last.call.sender][last.call.token] > 0
    /\ vault.collectedFees[last.call.token] > 0

\* ------------------------------------------- failures after a pull or debit

\* protectedSwap call c passes its argument checks and its pull of amountIn
\* succeeds, and the output it computes is below minAmountOut.
SlippageCase(c, r) ==
    /\ c.target = "mevRouter" /\ c.op = "protectedSwap"
    /\ c.token \in Tokens /\ c.token2 # ZeroAddr /\ c.amount > 0 /\ c.score <= 100
    /\ r.env = GoodEnv
    /\ token[c.token].balanceOf[c.sender] >= c.amount
    /\ token[c.token].allowance[c.sender][RouterAddr] >= c.amount
    /\ SimulateSwap(c.amount) < c.minOut

\* C16 as stated: when the computed amountOut is below minAmountOut the call
\* fails with "insufficient output amount" and the pulled amountIn stays in
\* the Router: the Router holds amountIn more and the caller amountIn less
\* than before the call.
C16_SlippageStrandsInput ==
    [][ SlippageCase(last'.call, last') =>
          LET c == last'.call
          IN /\ ~last'.ok
             /\ last'.err = "MEVRouter: insufficient output amount"
             /\ token'[c.token].balanceOf[RouterAddr]
                   = token[c.token].balanceOf[RouterAddr] + c.amount
             /\ token'[c.token].balanceOf[c.sender]
                   = token[c.token].balanceOf[c.sender] - c.amount ]_vars

\* C16: when the computed amountOut is below minAmountOut the call fails with
\* "insufficient output amount" and is undone as a whole: the pulled amountIn
\* is back with the caller, the allowance restored, and the Router holds what
\* it held before the call.
C16_SlippageRefundsInput ==
    [][ SlippageCase(last'.call, last') =>
          /\ ~last'.ok
          /\ last'.err = "MEVRouter: insufficient output amount"
          /\ token' = token
          /\ mevRouter' = mevRouter ]_vars

\* A swap of 150 for at least 149 failed the slippage check, the caller
\* holding the input and the allowance for it.
C16_Witness ==
    /\ last.call.target = "mevRouter" /\ last.call.op = "protectedSwap"
    /\ ~last.ok /\ last.err = "MEVRouter: insufficient output amount"
    /\ last.call.amount = 150 /\ last.call.minOut = 149
    /\ token[last.call.token].balanceOf[last.call.sender] >= 150
    /\ token[last.call.token].allowance[last.call.sender][RouterAddr] >= 150

\* Vault call c is a withdraw or routerWithdraw that passes its checks and
\* debits a positive amount, and the asset's transfer returns false.
FailedPushCase(c, r) ==
    /\ c.target = "vault" /\ c.op \in {"withdraw", "routerWithdraw"}
    /\ c.op = "routerWithdraw" => c.sender = vault.router
    /\ c.token \in Tokens /\ c.amount > 0
    /\ vault.balances[c.user][c.token] >= c.amount
    /\ r.env.mode = "false"

\* C17 as stated: when the push of withdraw or routerWithdraw returns failure
\* after the debit, the call fails with "transfer failed" and the user's
\* balance record stays reduced by the requested amount.
C17_FailedPushKeepsDebit ==
    [][ FailedPushCase(last'.call, last') =>
          LET c == last'.call
          IN /\ ~last'.ok
             /\ last'.err = "ProtectionVault: transfer failed"
             /\ vault'.balances[c.user][c.token]
                   = vault.balances[c.user][c.token] - c.amount ]_vars

\* C17: when the push of withdraw or routerWithdraw returns failure after the
\* debit, the call fails with "transfer failed" and is undone as a whole: the
\* user's balance record is what it was before the call, and so are the
\* Vault and the assets.
C17_FailedPushRestoresBalance ==
    [][ FailedPushCase(last'.call, last') =>
          /\ ~last'.ok
          /\ last'.err = "ProtectionVault: transfer failed"
          /\ vault' = vault
          /\ token' = token ]_vars

\* A routerWithdraw of a recorded balance failed on the push.
C17_Witness ==
    /\ last.call.target = "vault" /\ last.call.op = "routerWithdraw"
    /\ ~last.ok /\ last.err = "ProtectionVault: transfer failed"
    /\ last.env.mode = "false"
    /\ last.call.amount > 0
    /\ vault.balances[last.call.user][last.call.token] >= last.call.amount

\* ----------------------------------------------------- the lock: coverage

\* C18: withdrawFees, which zeroes the fee ledger and then transfers, holds the
\* Vault's lock while it runs: a call made by the asset's hook during its
\* transfer into deposit, withdraw, routerWithdraw or emergencyWithdraw of the
\* Vault never executes.
C18_WithdrawFeesHoldsLock ==
    (/\ last.call.target = "vault" /\ last.call.op = "withdrawFees"
     /\ HookOf(last).call.target = "vault"
     /\ Guarded(HookOf(last).call))
       => last.nest.status # "executed"

\* Fresh top-level calls of the lock-guarded functions.
FreshCalls ==
    { VaultCall(op, u, "A", 100, u) :
        op \in {"deposit", "withdraw", "emergencyWithdraw"}, u \in Users }
    \cup { VaultCall("routerWithdraw", vault.router, "A", 100, u) : u \in Users }
    \cup { SwapCall(u, "A", "B", 100, 95, 85) : u \in Users }

\* C19: between transactions, whether the previous call succeeded or failed,
\* the lock of neither instance is held, and a fresh top-level call of
\* protectedSwap, deposit, withdraw, routerWithdraw or emergencyWithdraw is
\* not rejected with ReentrantCall.
C19_LockReleased ==
    /\ ~Locked(World, "vault")
    /\ ~Locked(World, "mevRouter")
    /\ \A c \in FreshCalls : StartOf(World, c).err # "ReentrantCall"

\* A withdrawal failed because the asset's hook called withdraw again and
\* handed the rejection up; the lock is free after it.
C19_Witness ==
    /\ last.call.target = "vault" /\ last.call.op = "withdraw"
    /\ ~last.ok /\ last.err = "ReentrantCall"
    /\ HookOf(last).call.op = "withdraw" /\ ~HookOf(last).swallow
    /\ ~vault.locked

\* ------------------------------------------------ TimeLock: the delay

\* The delay createOrder call c is given in the current state.
DelayOf(c) == IF c.delay = 0 THEN timeLock.defaultDelay ELSE c.delay

\* C20: a successful createOrder stores under the next id a pending order
\* whose executeAfter is the block's timestamp plus the delay, a delay of 0
\* standing for the default delay of that moment: canExecute is false one
\* second before and true at that time; and no later call, updateDefaultDelay
\* included, changes the executeAfter of an order already created.
C20_ExecuteAfterFixedAtCreation ==
    [][ LET c == last'.call
            id == timeLock.orderCount
            due == block.timestamp + DelayOf(c)
        IN /\ (c.target = "timeLock" /\ c.op = "createOrder" /\ last'.ok) =>
                /\ last'.ret = id
                /\ timeLock'.orderCount = id + 1
                /\ timeLock'.orders[id].user = c.sender
                /\ timeLock'.orders[id].executeAfter = due
                /\ ~timeLock'.orders[id].executed /\ ~timeLock'.orders[id].cancelled
                /\ ~CanExecute(timeLock', id, due - 1)
                /\ CanExecute(timeLock', id, due)
           /\ \A i \in OrderIds :
                i < timeLock.orderCount =>
                   timeLock'.orders[i].executeAfter = timeLock.orders[i].executeAfter
       ]_vars

\* An order created with delay 0 at time 1000 under the default delay 60 is due
\* at 1060; the default delay was changed since; at 1060 it can be executed.
C20_Witness ==
    /\ timeLock.orderCount > 0
    /\ timeLock.orders[0].user \in Users
    /\ timeLock.orders[0].executeAfter = 1060
    /\ timeLock.defaultDelay # 60
    /\ block.timestamp = 1060
    /\ ~CanExecute(timeLock, 0, 1059)
    /\ CanExecute(timeLock, 0, block.timestamp)

\* ------------------------------------------- TimeLock: orders never created

\* Order id was created and is neither executed nor cancelled.
Pending(id) ==
    /\ id < timeLock.orderCount
    /\ ~timeLock.orders[id].executed
    /\ ~timeLock.orders[id].cancelled

\* C21: canExecute(orderId) is true exactly when the order exists in the
\* pending state (created, neither executed nor cancelled) and the block's
\* timestamp has reached its executeAfter.
C21_CanExecuteIffPendingAndDue ==
    \A id \in OrderIds :
        CanExecute(timeLock, id, block.timestamp)
           <=> (Pending(id) /\ block.timestamp >= timeLock.orders[id].executeAfter)

\* C22: executeOrder(orderId) on an id never created (orderId >= orderCount)
\* fails and changes no state, whoever calls.
C22_ExecuteUnknownOrderFails ==
    [][ (/\ last'.call.target = "timeLock" /\ last'.call.op = "executeOrder"
         /\ last'.call.orderId >= timeLock.orderCount)
           => (~last'.ok /\ timeLock' = timeLock) ]_vars

\* ----------------------------------------- RiskOracle: records, reputation

\* The last transaction was a successful call of RiskOracle function op.
OracleDid(op) == last.call.target = "oracle" /\ last.call.op = op /\ last.ok

\* A hash without a successful submitRiskScore reads as the zero tuple.
UnwrittenReadsZero ==
    \A h \in Hashes :
        oracle.riskScores[h].timestamp = 0 =>
            /\ oracle.riskScores[h] = ZeroScore
            /\ GetRiskScore(oracle, h) = <<0, 0>>

\* A record is written by a successful submitRiskScore(h, s) with (s, now, the
\* caller) and by nothing else, and a written record never changes.
RecordWrittenOnce ==
    \A h \in Hashes :
        LET c == last'.call
            submitted == /\ c.target = "oracle" /\ c.op = "submitRiskScore"
                         /\ c.hash = h /\ last'.ok
        IN /\ submitted =>
                /\ GetRiskScore(oracle, h) = <<0, 0>>
                /\ GetRiskScore(oracle', h) = <<c.score, block.timestamp>>
                /\ oracle'.riskScores[h].operator = c.sender
           /\ ~submitted => oracle'.riskScores[h] = oracle.riskScores[h]
           /\ oracle.riskScores[h].timestamp # 0 =>
                oracle'.riskScores[h] = oracle.riskScores[h]

\* C23: before a successful submitRiskScore for a hash getRiskScore returns
\* (0, 0); a successful submitRiskScore(h, s) at time t by operator o stores
\* (s, t, o), and the record is the same in every later state, also after o
\* was removed as operator.
C23_RecordsImmutable == [][RecordWrittenOnce]_vars /\ []UnwrittenReadsZero

\* The operator who wrote a record has been removed; the record stands.
C23_Witness ==
    /\ OracleDid("removeOperator")
    /\ \E h \in Hashes :
          /\ oracle.riskScores[h].timestamp > 0
          /\ oracle.riskScores[h].timestamp < block.timestamp
          /\ oracle.riskScores[h].score = 30
          /\ oracle.riskScores[h].operator = last.call.user
          /\ ~oracle.operators[last.call.user]

RelayDid(op) == last.call.target = "relay" /\ last.call.op = op /\ last.ok

\* Hash h has a bundle record.
Recorded(r, h) == r.bundles[h].timestamp # 0

\* The call being committed is submitBundle by the router for a hash that has
\* a record.
SecondSubmission(c) ==
    /\ c.target = "relay" /\ c.op = "submitBundle"
    /\ c.sender = relay.router
    /\ Recorded(relay, c.hash)

\* submitBundle succeeds only with a target block after the current one and a
\* hash without a record.
SubmitNeedsFutureBlockAndNewHash ==
    LET c == last'.call
    IN (c.target = "relay" /\ c.op = "submitBundle" /\ last'.ok) =>
         /\ c.targetBlock > block.number
         /\ ~Recorded(relay, c.hash)

\* C25 as stated: submitBundle succeeds only with a target block after the
\* current one and a hash without a record, and a second submitBundle for a
\* recorded hash fails with "bundle exists" whatever the target block,
\* leaving the relay unchanged.
C25_SecondSubmitFailsDuplicateRecord ==
    [][ /\ SubmitNeedsFutureBlockAndNewHash
        /\ SecondSubmission(last'.call) =>
              /\ ~last'.ok
              /\ last'.err = "PrivateRelay: bundle exists"
              /\ relay' = relay ]_vars

\* C25: submitBundle succeeds only with a target block after the current one
\* and a hash without a record; a second submitBundle by the router for a
\* recorded hash fails and leaves the record, the per-block lists and both
\* counts unchanged: with "bundle exists" when the target block is after the
\* current one, with "invalid target block" otherwise, the block being
\* checked first.
C25_BundleWrittenOnce ==
    [][ /\ SubmitNeedsFutureBlockAndNewHash
        /\ SecondSubmission(last'.call) =>
              /\ ~last'.ok
              /\ last'.err = IF last'.call.targetBlock > block.number
                             THEN "PrivateRelay: bundle exists"
                             ELSE "PrivateRelay: invalid target block"
              /\ relay' = relay ]_vars

\* The router submitted a recorded hash again for another, later block and
\* was refused with "bundle exists".
C25_Witness ==
    /\ last.call.target = "relay" /\ last.call.op = "submitBundle"
    /\ ~last.ok /\ last.err = "PrivateRelay: bundle exists"
    /\ Recorded(relay, last.call.hash)
    /\ relay.bundles[last.call.hash].blockNumber # last.call.targetBlock
    /\ relay.totalBundlesSubmitted = 1

\* C26: markBundleIncluded fails when the hash has no record or the bundle is
\* already included; on success it sets included and adds exactly one to the
\* count of included bundles, changing nothing else; an included bundle stays
\* included.
C26_IncludedAtMostOnce ==
    [][ /\ \A h \in Hashes :
              relay.bundles[h].included => relay'.bundles[h].included
        /\ LET c == last'.call
           IN (c.target = "relay" /\ c.op = "markBundleIncluded") =>
                /\ (~Recorded(relay, c.hash) \/ relay.bundles[c.hash].included) =>
                       (~last'.ok /\ relay' = relay)
                /\ last'.ok =>
                       relay' = [relay EXCEPT !.bundles[c.hash].included = TRUE,
                                              !.totalBundlesIncluded = @ + 1] ]_vars

\* The owner reported an included bundle as included again and was refused.
C26_Witness ==
    /\ last.call.target = "relay" /\ last.call.op = "markBundleIncluded"
    /\ last.call.sender = relay.owner
    /\ ~last.ok /\ last.err = "PrivateRelay: already included"
    /\ relay.bundles[last.call.hash].included
    /\ relay.totalBundlesIncluded = 1

\* markBundleFailed fails when the hash has no record, succeeds for the owner
\* when it has one, and changes no stored state.
FailedReportChangesNothing ==
    LET c == last'.call
    IN (c.target = "relay" /\ c.op = "markBundleFailed") =>
         /\ ~Recorded(relay, c.hash) => ~last'.ok
         /\ (Recorded(relay, c.hash) /\ c.sender = relay.owner) => last'.ok
         /\ relay' = relay

\* A bundle reported failed and not included can be marked included.
FailedStaysPending ==
    (RelayDid("markBundleFailed") /\ ~relay.bundles[last.call.hash].included) =>
        MarkBundleIncluded(World, RelayCall("markBundleIncluded", relay.owner,
                                            last.call.hash, 0, relay.owner)).ok

\* C27: markBundleFailed fails when the hash has no record and otherwise
\* changes no stored state (record, included flag, both counts, per-block
\* lists): the bundle stays pending and can still be marked included.
C27_FailedReportIsStateless == [][FailedReportChangesNothing]_vars /\ []FailedStaysPending

\* The owner reported a pending bundle as failed.
C27_Witness ==
    /\ RelayDid("markBundleFailed")
    /\ Recorded(relay, last.call.hash)
    /\ ~relay.bundles[last.call.hash].included
    /\ relay.totalBundlesIncluded = 0

\* The two counts are the numbers of records and of included records, and the
\* inclusion rate is their ratio in percent, 0 when nothing was submitted.
CountsMatchRecords ==
    /\ relay.totalBundlesSubmitted = Cardinality({ h \in Hashes : Recorded(relay, h) })
    /\ relay.totalBundlesIncluded
          = Cardinality({ h \in Hashes : relay.bundles[h].included })
    /\ relay.totalBundlesIncluded <= relay.totalBundlesSubmitted
    /\ GetInclusionRate(relay) \in 0 .. 100
    /\ relay.totalBundlesSubmitted > 0 =>
          GetInclusionRate(relay)
             = (relay.totalBundlesIncluded * 100) \div relay.totalBundlesSubmitted
    /\ relay.totalBundlesSubmitted = 0 => GetInclusionRate(relay) = 0

\* C28: the counts of submitted and of included bundles never decrease; the
\* count of included bundles is the number of records with included set and
\* at most the count of submitted bundles, which is the number of records;
\* getInclusionRate is floor(included * 100 / submitted), within 0 .. 100, and
\* 0 when nothing was submitted.
C28_RelayCounters ==
    /\ []CountsMatchRecords
    /\ [][ /\ relay'.totalBundlesSubmitted >= relay.totalBundlesSubmitted
           /\ relay'.totalBundlesIncluded >= relay.totalBundlesIncluded ]_vars

\* Two bundles were submitted and one of them included: the rate is 50.
C28_Witness ==
    /\ relay.totalBundlesSubmitted = 2
    /\ relay.totalBundlesIncluded = 1
    /\ GetInclusionRate(relay) = 50

\* ---------------------------------------------------------- role checks

\* The functions reserved to a component's router, to the operators and to a
\* component's owner.
RouterOnly(c) ==
    \/ c.target = "vault" /\ c.op = "routerWithdraw"
    \/ c.target = "timeLock" /\ c.op = "executeOrder"
    \/ c.target = "relay" /\ c.op = "submitBundle"

OperatorOnly(c) == c.target = "oracle" /\ c.op = "submitRiskScore"

OwnerOnly(c) ==
    \/ c.target = "vault" /\ c.op \in {"withdrawFees", "togglePause",
                                        "updateProtectionFee", "updateRouter"}
    \/ c.target = "timeLock" /\ c.op = "updateRouter"
    \/ c.target = "relay" /\ c.op \in {"markBundleIncluded", "updateRouter"}
    \/ c.target = "oracle" /\ c.op \in {"updateOperatorAccuracy", "addOperator",
                                         "removeOperator"}

\* The router and the owner of the component call c is made to, in the current
\* state.
RouterNow(c) ==
    CASE c.target = "vault" -> vault.router
      [] c.target = "timeLock" -> timeLock.router
      [] c.target = "relay" -> relay.router
      [] OTHER -> ZeroAddr

OwnerNow(c) ==
    CASE c.target = "vault" -> vault.owner
      [] c.target = "timeLock" -> timeLock.owner
      [] c.target = "relay" -> relay.owner
      [] c.target = "oracle" -> oracle.owner
      [] OTHER -> ZeroAddr

\* The caller of c holds, in the current state, the role c is reserved to.
HasRole(c) ==
    /\ RouterOnly(c) => c.sender = RouterNow(c)
    /\ OperatorOnly(c) => oracle.operators[c.sender]
    /\ OwnerOnly(c) => c.sender = OwnerNow(c)

\* The failures of a role check.
Unauthorized ==
    {"ProtectionVault: not router", "TimeLock: not router", "PrivateRelay: not router",
     "RiskOracle: not authorized operator",
     "ProtectionVault: not owner", "TimeLock: not owner", "PrivateRelay: not owner",
     "RiskOracle: not owner"}

\* C29: routerWithdraw, executeOrder and submitBundle succeed only when the
\* caller is that component's current router, submitRiskScore only when the
\* caller is currently an operator, and the owner's functions only when the
\* caller is the component's owner; a call by anyone else fails with the role
\* check's message and changes no state.
C29_RoleChecks ==
    [][ LET c == last'.call
        IN (RouterOnly(c) \/ OperatorOnly(c) \/ OwnerOnly(c)) =>
             /\ last'.ok => HasRole(c)
             /\ ~HasRole(c) =>
                   /\ ~last'.ok
                   /\ last'.err \in Unauthorized
                   /\ UNCHANGED <<vault, mevRouter, token, timeLock, oracle, relay, block>>
      ]_vars

\* After the Vault's router was replaced, the previous router called
\* routerWithdraw and was refused.
C29_Witness ==
    /\ last.call.target = "vault" /\ last.call.op = "routerWithdraw"
    /\ last.call.sender = RouterAddr
    /\ vault.router # RouterAddr
    /\ ~last.ok /\ last.err = "ProtectionVault: not router"

\* ------------------------------------------------------- configuration

\* The three configured values.
Config ==
    [threshold |-> mevRouter.privateRoutingThreshold,
     fee |-> vault.protectionFee,
     delay |-> timeLock.defaultDelay]

ConfigInBounds ==
    /\ Config.threshold \in 0 .. 100
    /\ Config.fee \in 0 .. MAX_FEE
    /\ Config.delay \in 1 .. 3600

\* Call c updates a configured value; its owner, its new value and whether the
\* new value is within the range.
ConfigUpdate(c) ==
    \/ c.target = "mevRouter" /\ c.op = "updatePrivateRoutingThreshold"
    \/ c.target = "vault" /\ c.op = "updateProtectionFee"
    \/ c.target = "timeLock" /\ c.op = "updateDefaultDelay"

ConfigOwner(c) ==
    CASE c.target = "mevRouter" -> mevRouter.owner
      [] c.target = "vault" -> vault.owner
      [] OTHER -> timeLock.owner

NewValue(c) ==
    CASE c.target = "mevRouter" -> c.score
      [] c.target = "vault" -> c.amount
      [] OTHER -> c.delay

InRange(c) ==
    CASE c.target = "mevRouter" -> c.score \in 0 .. 100
      [] c.target = "vault" -> c.amount \in 0 .. MAX_FEE
      [] OTHER -> c.delay \in 1 .. 3600

\* The configured values after call c wrote its new value.
Updated(c) ==
    CASE c.target = "mevRouter" -> [Config EXCEPT !.threshold = NewValue(c)]
      [] c.target = "vault" -> [Config EXCEPT !.fee = NewValue(c)]
      [] OTHER -> [Config EXCEPT !.delay = NewValue(c)]

\* An update by the owner within the range is written; any other fails and
\* changes nothing.
ConfigValidatedOnWrite ==
    LET c == last'.call
        before == Config
    IN ConfigUpdate(c) =>
         /\ (c.sender = ConfigOwner(c) /\ InRange(c)) =>
               /\ last'.ok
               /\ Config' = Updated(c)
         /\ ~(c.sender = ConfigOwner(c) /\ InRange(c)) =>
               /\ ~last'.ok
               /\ Config' = before
               /\ UNCHANGED <<vault, mevRouter, timeLock>>

\* C30: the private-routing threshold is within 0 .. 100 (70 at first), the
\* protection fee within 0 .. 100 basis points (10 at first) and the default
\* delay within 1 .. 3600 seconds (60 at first) in every reachable state; an
\* update outside the range, or by another than the owner, fails and leaves
\* the value unchanged.
C30_ConfigurationBounds ==
    /\ Config = [threshold |-> 70, fee |-> 10, delay |-> 60]
    /\ []ConfigInBounds
    /\ [][ConfigValidatedOnWrite]_vars

\* The owner raised the threshold to 100 and was then refused 101.
C30_Witness ==
    /\ last.call.target = "mevRouter" /\ last.call.op = "updatePrivateRoutingThreshold"
    /\ last.call.sender = mevRouter.owner
    /\ last.call.score = 101
    /\ ~last.ok /\ last.err = "MEVRouter: invalid threshold"
    /\ mevRouter.privateRoutingThreshold = 100

\* ------------------------------------------ MEVRouter: the owner's calls

\* The call being committed is MEVRouter function op.
RouterCalls(op) == last'.call.target = "mevRouter" /\ last'.call.op = op

\* updatePrivateRoutingThreshold: the owner's value within 0 .. 100 is written
\* as it is; another caller is refused and the threshold stays.
ThresholdWrittenByOwner ==
    LET c == last'.call
    IN RouterCalls("updatePrivateRoutingThreshold") =>
         /\ (c.sender = mevRouter.owner /\ c.score <= 100) =>
               /\ last'.ok
               /\ mevRouter'.privateRoutingThreshold = c.score
         /\ c.sender # mevRouter.owner =>
               /\ ~last'.ok /\ last'.err = "MEVRouter: caller is not owner"
               /\ mevRouter'.privateRoutingThreshold = mevRouter.privateRoutingThreshold

\* No other call changes the threshold.
ThresholdKept ==
    mevRouter'.privateRoutingThreshold # mevRouter.privateRoutingThreshold =>
        RouterCalls("updatePrivateRoutingThreshold") /\ last'.ok

\* A successful protectedSwap goes the private path exactly when its score
\* reaches the threshold in force, hence always under threshold 0.
RoutedAgainstThreshold ==
    (RouterCalls("protectedSwap") /\ last'.ok) =>
        /\ (EventsNamed(last', "PrivateSwapExecuted") # {})
              <=> (last'.call.score >= mevRouter.privateRoutingThreshold)
        /\ mevRouter.privateRoutingThreshold = 0 =>
              EventsNamed(last', "PrivateSwapExecuted") # {}

\* C31: updatePrivateRoutingThreshold(t) by the owner with t <= 100 sets the
\* threshold to exactly t, and every later protectedSwap is routed against t
\* (with t = 0 every valid score goes the private path); by another caller it
\* fails with the not-owner error and the threshold keeps its value.
C31_ThresholdUpdate ==
    [][ThresholdWrittenByOwner /\ ThresholdKept /\ RoutedAgainstThreshold]_vars

\* After the owner set the threshold to 0, a swap of score 30 went the private
\* path.
C31_Witness ==
    /\ RouterDid("protectedSwap")
    /\ mevRouter.privateRoutingThreshold = 0
    /\ last.call.score = 30
    /\ EventsNamed(last, "PrivateSwapExecuted") # {}

\* The holdings of asset t after amount moved from holder from to holder to.
Moved(t, from, to, amount) ==
    [token[t] EXCEPT !.balanceOf =
        [h \in Holders |->
           CASE h = from /\ h = to -> @[h]
             [] h = from -> @[h] - amount
             [] h = to -> @[h] + amount
             [] OTHER -> @[h]]]

\* The owner's emergencyWithdraw of a well-behaved asset the Router holds
\* enough of succeeds; a successful one moves the amount from the Router to
\* the owner and nothing else.
SweepPaysOwner ==
    LET c == last'.call
    IN (RouterCalls("emergencyWithdraw") /\ c.sender = mevRouter.owner) =>
         /\ last'.ok <=> /\ c.token \in Tokens
                         /\ AssetBehaved(last')
                         /\ token[c.token].balanceOf[RouterAddr] >= c.amount
         /\ last'.ok =>
               token' = [token EXCEPT ![c.token] =
                            Moved(c.token, RouterAddr, mevRouter.owner, c.amount)]
         /\ ~last'.ok => token' = token

\* Another caller's emergencyWithdraw is refused and moves nothing.
SweepRefused ==
    LET c == last'.call
    IN (RouterCalls("emergencyWithdraw") /\ c.sender # mevRouter.owner) =>
         /\ ~last'.ok /\ last'.err = "MEVRouter: caller is not owner"
         /\ token' = token

\* C32: MEVRouter.emergencyWithdraw(asset, amount) by the owner moves exactly
\* amount of the asset from the Router's holdings to the owner; by another
\* caller it fails with the not-owner error and no asset moves.
C32_EmergencySweep == [][SweepPaysOwner /\ SweepRefused]_vars

\* The owner swept 100 B out of the Router's 1000.
C32_Witness ==
    /\ RouterDid("emergencyWithdraw")
    /\ last.call.sender = mevRouter.owner
    /\ last.call.token = "B" /\ last.call.amount = 100
    /\ token["B"].balanceOf[Owner] = 100
    /\ token["B"].balanceOf[RouterAddr] = 900

\* ------------------------------------------------- Vault: the fee ledger

\* The call being committed is ProtectionVault function op.
VaultCalls(op) == last'.call.target = "vault" /\ last'.call.op = op

\* The fee ledger entry of t falls only in the owner's withdrawFees(t), which
\* empties it, pays the owner what it held and touches no user balance.
FeesFallOnlyToOwner ==
    \A t \in Tokens :
        vault'.collectedFees[t] < vault.collectedFees[t] =>
            /\ VaultCalls("withdrawFees") /\ last'.ok
            /\ last'.call.sender = vault.owner /\ last'.call.token = t
            /\ vault'.collectedFees[t] = 0
            /\ token' = [token EXCEPT ![t] =
                            Moved(t, VaultAddr, vault.owner, vault.collectedFees[t])]
            /\ vault'.balances = vault.balances

\* A successful withdrawFees(t) empties the entry of t and no other.
FeesDrained ==
    (VaultCalls("withdrawFees") /\ last'.ok) =>
        /\ vault.collectedFees[last'.call.token] > 0
        /\ vault'.collectedFees =
              [vault.collectedFees EXCEPT ![last'.call.token] = 0]

\* The entry of t rises only in a successful deposit of t.
FeesRiseOnlyInDeposit ==
    \A t \in Tokens :
        vault'.collectedFees[t] > vault.collectedFees[t] =>
            VaultCalls("deposit") /\ last'.ok /\ last'.call.token = t

\* The three withdrawals leave the fee ledger as it is.
WithdrawalsKeepFees ==
    (VaultCalls("withdraw") \/ VaultCalls("routerWithdraw")
        \/ VaultCalls("emergencyWithdraw")) =>
        vault'.collectedFees = vault.collectedFees

C34_CountersMovedOnlyByOwner ==
    [][ \A a \in AnyAddr :
          (\/ oracle'.operatorSubmissions[a] # oracle.operatorSubmissions[a]
           \/ oracle'.operatorAccurate[a] # oracle.operatorAccurate[a]) =>
              /\ last'.call.sender # a
              /\ last'.call.sender = oracle.owner ]_vars

\* ---------------------------------------------- MEVRouter: no replay state

\* The Router has counted no swap and recorded none as executed.
NoReplayState ==
    /\ \A a \in Addr : GetNonce(mevRouter, a) = 0
    /\ mevRouter.executedSwaps = {}

\* The swaps a caller may ask for again.
RepeatedSwaps ==
    { SwapCall(sender, tIn, tOut, amountIn, minOut, score) :
        sender \in Repeats.users, tIn \in Repeats.tokens, tOut \in Repeats.tokensOut,
        amountIn \in Repeats.amounts, minOut \in Repeats.minOuts,
        score \in Repeats.scores }

\* The state the next transaction runs on after outcome r.
Again(r) == [r.w EXCEPT !.nest = [status |-> "none", err |-> "none"], !.events = <<>>]

\* On state w the caller of swap c holds and has approved the input, and the
\* Router holds the output.
Funded(w, c) ==
    /\ w.token[c.token].balanceOf[c.sender] >= c.amount
    /\ w.token[c.token].allowance[c.sender][RouterAddr] >= c.amount
    /\ w.token[c.token2].balanceOf[RouterAddr] + (IF c.token = c.token2 THEN c.amount ELSE 0)
          >= SimulateSwap(c.amount)

\* Swap c asked again on state w succeeds exactly when it is funded.
SucceedsAgain(w, c) == Exec(w, c, GoodEnv, GoodEnv).ok <=> Funded(w, c)

\* If swap c succeeds with outcome first, the same call in the same block
\* succeeds again when it is funded.
RepeatOf(c, first) == first.ok => SucceedsAgain(Again(first), c)

RepeatSucceeds ==
    \A c \in RepeatedSwaps : RepeatOf(c, Exec(World, c, GoodEnv, GoodEnv))

Creates == last'.call.target = "timeLock" /\ last'.call.op = "createOrder" /\ last'.ok

\* A successful createOrder returns the order count and raises it by one; no
\* other call changes the count.
IdsGivenInSequence ==
    /\ Creates => /\ last'.ret = timeLock.orderCount
                  /\ timeLock'.orderCount = timeLock.orderCount + 1
    /\ ~Creates => timeLock'.orderCount = timeLock.orderCount

\* The order stored under id has a flag set or an owner.
Stored(id) ==
    \/ timeLock.orders[id].executed
    \/ timeLock.orders[id].cancelled
    \/ timeLock.orders[id].user # ZeroAddr

\* How often id occurs in the order index of user a.
Occurrences(a, id) ==
    Cardinality({ k \in DOMAIN timeLock.userOrders[a] : timeLock.userOrders[a][k] = id })

\* Every stored order has an id below the count, and every id below the count
\* is once in the index of the user of its order and in no other index.
IdsBelowCount ==
    /\ \A id \in OrderIds : Stored(id) => id < timeLock.orderCount
    /\ \A id \in OrderIds, a \in Addr :
          Occurrences(a, id) =
              IF id < timeLock.orderCount /\ timeLock.orders[id].user = a THEN 1 ELSE 0

\* C36: order ids are sequential and never reused: each successful createOrder
\* returns the current order count (0 at first) and increments it by one, the
\* count is the number of orders ever created, every stored order with a set
\* flag or an owner has an id below the count, and each id is exactly once in
\* the order index of exactly the user who created it.
C36_SequentialOrderIds ==
    /\ timeLock.orderCount = 0
    /\ [][IdsGivenInSequence]_vars
    /\ []IdsBelowCount

\* ------------------------------------------- Vault: isolation of balances

\* The user whose record the call being committed acts on.
Subject == IF VaultCalls("routerWithdraw") THEN last'.call.user ELSE last'.call.sender

\* The record of (u, t) rises only in u's own successful deposit of t.
CreditedOnlyByOwnDeposit ==
    \A u \in Addr, t \in Tokens :
        vault'.balances[u][t] > vault.balances[u][t] =>
            /\ VaultCalls("deposit") /\ last'.ok
            /\ last'.call.sender = u /\ last'.call.token = t

\* The record of (u, t) falls only in u's own successful withdraw or
\* emergencyWithdraw of t, or in a routerWithdraw of t by the router naming u.
DebitedOnlyForOwner ==
    \A u \in Addr, t \in Tokens :
        vault'.balances[u][t] < vault.balances[u][t] =>
            /\ last'.ok /\ last'.call.token = t
            /\ \/ /\ VaultCalls("withdraw") \/ VaultCalls("emergencyWithdraw")
                  /\ last'.call.sender = u
               \/ /\ VaultCalls("routerWithdraw")
                  /\ last'.call.sender = vault.router
                  /\ last'.call.user = u

\* A call of the Vault leaves the records of every other user and asset.
OthersUntouched ==
    last'.call.target = "vault" =>
        \A u \in Addr, t \in Tokens :
            (u # Subject \/ t # last'.call.token) =>
                vault'.balances[u][t] = vault.balances[u][t]

\* A successful routerWithdraw debits the named user's record by the amount
\* and moves the amount from the Vault to the router.
RouterIsPaid ==
    LET c == last'.call
    IN (VaultCalls("routerWithdraw") /\ last'.ok /\ c.token \in Tokens) =>
         /\ vault'.balances[c.user][c.token] = vault.balances[c.user][c.token] - c.amount
         /\ token' = [token EXCEPT ![c.token] =
                         Moved(c.token, VaultAddr, vault.router, c.amount)]

Swapped ==
    /\ RouterCalls("protectedSwap") /\ last'.ok
    /\ last'.call.token # last'.call.token2

\* Such a swap moves amountIn of the input from the caller to the Router,
\* against the caller's allowance, and floor(amountIn * 99 / 100) of the output
\* from the Router to the caller, which the Router held before the call.
SwapMovesBoth ==
    LET c == last'.call
        out == (c.amount * 99) \div 100
    IN Swapped =>
         /\ token[c.token2].balanceOf[RouterAddr] >= out
         /\ token'[c.token] =
               [Moved(c.token, c.sender, RouterAddr, c.amount)
                  EXCEPT !.allowance[c.sender][RouterAddr] = @ - c.amount]
         /\ token'[c.token2] = Moved(c.token2, RouterAddr, c.sender, out)

\* What the Router holds of an asset leaves it only as the output of a
\* successful protectedSwap or in a successful emergencyWithdraw by the owner.
LeavesOnlyBySwapOrSweep ==
    \A t \in Tokens :
        token'[t].balanceOf[RouterAddr] < token[t].balanceOf[RouterAddr] =>
            /\ last'.ok /\ last'.call.target = "mevRouter"
            /\ \/ last'.call.op = "protectedSwap" /\ last'.call.token2 = t
               \/ /\ last'.call.op = "emergencyWithdraw" /\ last'.call.token = t
                  /\ last'.call.sender = mevRouter.owner

C39_ClosingIsFinal ==
    [][ \A k \in Clients :
          monitor[k].closed => Len(monitor'[k].sockets) = Len(monitor[k].sockets) ]_vars

====
